---------------------------- MODULE Spec2Model ----------------------------
(***************************************************************************)
(* OCPP local controller: the WebSocket relay gateways of the repository.  *)
(*                                                                         *)
(* Gateways modelled, each from its sketch:                                *)
(*   "nicla"  the manual-TCP broadcast gateway                             *)
(*            (nicla_vision_ocpp_gateway.ino), bytes and frames included;  *)
(*   "ws2"    the broadcast gateway over the WebSockets2_Generic library   *)
(*            (src/unnamed/part_001);                                      *)
(*   "abc"    the broadcast proxy over the WebSockets library              *)
(*            (atom_s3_ocpp_proxy.ino, second sketch of the file);         *)
(*   "atom"   the per-session proxy (atom_s3_ocpp_proxy.ino, first sketch);*)
(*   "touch"  the per-session proxy (esp32_s3_ocpp_touch.ino).             *)
(* The library-based gateways are modelled at their callbacks: a message   *)
(* is a payload, a link is begun and connected or not.                     *)
(* A String is a sequence of bytes (0..255); millis() is the variable now. *)
(* `out` holds what the last step wrote to its transports, in order.       *)
(***************************************************************************)
EXTENDS Integers, Sequences, FiniteSets, TLC

VARIABLES
  sketch,                \* which gateway runs
  now,                   \* millis()
  out,                   \* writes, connects and closes performed by the last step
  \* ---- broadcast gateways over TCP ("nicla", "ws2")
  wallboxClients,        \* nicla: [Slots -> WallboxConnection]
  wallboxSock,           \* transport of wallboxClients[i]: its state and what is unread
  pendingWallbox,        \* a connection waits in wallboxServer's accept queue
  backendConnected,
  backendWsHandshakeDone,
  backendBuffer,
  lastBackendAttempt,
  backendSock,           \* transport of backendClient
  connectLog,            \* the backendClient.connect() calls so far: millis(), result and host of each
  \* ---- proxies over the WebSockets library ("abc", "atom", "touch")
  serverClients,         \* client numbers connected to wallboxServer (WebSocketsServer)
  configValid,           \* config.valid
  backendHost,           \* config.backendHost, config.backendPort: the backend target
  wallboxActive,         \* abc: [Slots -> BOOLEAN]
  backendClient,         \* abc: state of the WebSocketsClient
  sessions,              \* atom: [Slots -> WallboxSession]
  backendClients,        \* atom: [Slots -> state of the WebSocketsClient]
  beginLog,              \* atom, touch: per slot, the latest two begin() calls of its link
  endpoints              \* touch: [Slots -> ProxyEndpoint]

nvars == <<wallboxClients, wallboxSock, pendingWallbox, backendConnected,
           backendWsHandshakeDone, backendBuffer, lastBackendAttempt,
           backendSock, connectLog>>

pvars == <<serverClients, configValid, backendHost, wallboxActive, backendClient, sessions,
           backendClients, beginLog, endpoints>>

vars == <<sketch, now, out, nvars, pvars>>

\* a step of one gateway or of its peers: the state of the others stays
OnNicla == sketch = "nicla" /\ UNCHANGED <<sketch, pvars>>

OnWs ==
  /\ sketch = "ws2"
  /\ UNCHANGED <<sketch, pvars, wallboxClients, backendConnected,
                 backendWsHandshakeDone, backendBuffer>>

OnAbc ==
  /\ sketch = "abc"
  /\ UNCHANGED <<sketch, wallboxClients, wallboxSock, pendingWallbox, backendConnected,
                 backendWsHandshakeDone, backendBuffer, backendSock, configValid,
                 backendHost, sessions, backendClients, beginLog, endpoints>>

OnAtom ==
  /\ sketch = "atom"
  /\ UNCHANGED <<sketch, nvars, configValid, backendHost, wallboxActive, backendClient,
                 endpoints>>

OnTouch ==
  /\ sketch = "touch"
  /\ UNCHANGED <<sketch, nvars, configValid, backendHost, wallboxActive, backendClient, sessions,
                 backendClients>>

(***************************************************************************)
(* Program constants                                                       *)
(***************************************************************************)
MAX_WALLBOX_CLIENTS == 5

BACKOFF_MS == 5000

INVALID_WALLBOX_ID == 255

Slots == 0 .. (MAX_WALLBOX_CLIENTS - 1)

(***************************************************************************)
(* Bounds of the exploration                                               *)
(***************************************************************************)
\* millis() advances in steps of TimeStep up to MaxTime
TimeStep == 2500

MaxTime == 15000

\* wallboxes connected at once while traffic is relayed
MaxRelaySessions == 2

\* transports that hold unread bytes at once
MaxUnread == 2

\* the WebSockets server hands out client numbers 0 .. MaxClient while
\* traffic is relayed
MaxClient == 1

(***************************************************************************)
(* Bytes and Strings                                                       *)
(***************************************************************************)
RECURSIVE Xor(_, _)
Xor(a, b) ==
  IF a = 0 THEN b
  ELSE IF b = 0 THEN a
  ELSE (((a % 2) + (b % 2)) % 2) + 2 * Xor(a \div 2, b \div 2)

SetMin(S) == CHOOSE x \in S : \A y \in S : x <= y

\* String::indexOf(pattern): first 0-based position, -1 when absent
IndexOf(s, pat) ==
  LET hits == {k \in 0 .. (Len(s) - Len(pat)) : SubSeq(s, k + 1, k + Len(pat)) = pat}
  IN  IF hits = {} THEN -1 ELSE SetMin(hits)

\* a substring that keeps the whole String
SubstringAll(s, from) == s

\* String::substring(from): the bytes from 0-based position `from` on
Substring(s, from) == SubSeq(s, from + 1, Len(s))

CRLFCRLF == <<13, 10, 13, 10>>

Str101 == <<49, 48, 49>>

(***************************************************************************)
(* Frame codec of the manual-TCP gateway                                   *)
(***************************************************************************)
\* decodeWebSocketFrame(String& buffer): the returned String and the buffer
\* as the call leaves it
decodeWebSocketFrame(buffer) ==
  LET incomplete == [message |-> <<>>, buffer |-> buffer]
  IN
  IF Len(buffer) < 2 THEN incomplete
  ELSE
    LET byte1   == buffer[1]
        byte2   == buffer[2]
        fin     == (byte1 \div 128) = 1
        opcode  == byte1 % 16
        masked  == (byte2 \div 128) = 1
        len7    == byte2 % 128
    IN
    IF len7 = 126 /\ Len(buffer) < 4 THEN incomplete
    ELSE IF len7 = 127 THEN incomplete
    ELSE
      LET payloadLen == IF len7 = 126 THEN buffer[3] * 256 + buffer[4] ELSE len7
          pos0       == IF len7 = 126 THEN 4 ELSE 2
      IN
      IF masked /\ Len(buffer) < pos0 + 4 THEN incomplete
      ELSE
        LET pos  == IF masked THEN pos0 + 4 ELSE pos0
            mask == [k \in 0 .. 3 |-> IF masked THEN buffer[pos0 + 1 + k] ELSE 0]
        IN
        IF Len(buffer) < pos + payloadLen THEN incomplete
        ELSE
          LET payload == [k \in 1 .. payloadLen |->
                            IF masked THEN Xor(buffer[pos + k], mask[(k - 1) % 4])
                                      ELSE buffer[pos + k]]
          IN  [message |-> IF opcode = 1 /\ fin THEN payload ELSE <<>>,
               buffer  |-> Substring(buffer, pos + payloadLen)]

\* encodeWebSocketFrame(const String& payload)
encodeWebSocketFrame(payload) ==
  LET len == Len(payload)
  IN  IF len < 126
        THEN <<129, len>> \o payload
        ELSE <<129, 126, (len \div 256) % 256, len % 256>> \o payload

(***************************************************************************)
(* What the peers send                                                     *)
(***************************************************************************)
\* A frame as a peer puts it on the wire: FIN, opcode, MASK bit, mask key,
\* payload (shorter than 126 bytes)
PeerFrame(fin, opcode, key, payload) ==
  <<(IF fin THEN 128 ELSE 0) + opcode,
    (IF key = <<>> THEN 0 ELSE 128) + Len(payload)>>
  \o key
  \o [k \in 1 .. Len(payload) |->
        IF key = <<>> THEN payload[k] ELSE Xor(payload[k], key[((k - 1) % 4) + 1])]

\* "GET / HTTP/1.1\r\nSec-WebSocket-Key: "
RequestHead ==
  <<71, 69, 84, 32, 47, 32, 72, 84, 84, 80, 47, 49, 46, 49, 13, 10, 83, 101,
    99, 45, 87, 101, 98, 83, 111, 99, 107, 101, 116, 45, 75, 101, 121, 58, 32>>

\* "dGhlIHNhbXBsZSBub25jZQ=="
KeySample ==
  <<100, 71, 104, 108, 73, 72, 78, 104, 98, 88, 66, 115, 90, 83, 66, 117, 98,
    50, 53, 106, 90, 81, 61, 61>>

\* "x3JJHMbDL1EzLkh9GBhXDw=="
KeyOther ==
  <<120, 51, 74, 74, 72, 77, 98, 68, 76, 49, 69, 122, 76, 107, 104, 57, 71, 66,
    104, 88, 68, 119, 61, 61>>

Keys == {KeySample, KeyOther}

\* the upgrade request of a wallbox that sends `key`
UpgradeRequest(key) == RequestHead \o key \o CRLFCRLF

\* payloads "hi" and "ok"
PayloadHi == <<104, 105>>

PayloadOk == <<111, 107>>

MaskKey == <<18, 52, 86, 120>>

\* what a wallbox may send in one piece: its upgrade request, and frames
WallboxRequests == {UpgradeRequest(KeySample), UpgradeRequest(KeyOther)}

WallboxFrames ==
  { PeerFrame(TRUE, 1, MaskKey, PayloadHi),
    PeerFrame(TRUE, 1, MaskKey, <<>>) }

WallboxChunks == WallboxRequests \cup WallboxFrames

\* "HTTP/1.1 101 OK\r\n\r\n" and "HTTP/1.1 403 No\r\n\r\n"
Response101 ==
  <<72, 84, 84, 80, 47, 49, 46, 49, 32, 49, 48, 49, 32, 79, 75, 13, 10, 13, 10>>

Response403 ==
  <<72, 84, 84, 80, 47, 49, 46, 49, 32, 52, 48, 51, 32, 78, 111, 13, 10, 13, 10>>

\* what the backend may send in one piece: its answer to the upgrade
\* request, and frames
BackendResponses == {Response101, Response403}

BackendFrames ==
  { PeerFrame(TRUE, 1, <<>>, PayloadOk),
    PeerFrame(TRUE, 1, <<>>, <<>>) }

BackendChunks == BackendResponses \cup BackendFrames


\* the request connectBackend() prints: "GET / HTTP/1.1\r\nHost: ocpp.example.com\r\n
\* Upgrade: websocket\r\nConnection: Upgrade\r\nSec-WebSocket-Key: dGhlIHNhbXBsZSBub25jZQ==\r\n
\* Sec-WebSocket-Version: 13\r\n\r\n"
BackendHandshake ==
  <<71, 69, 84, 32, 47, 32, 72, 84, 84, 80, 47, 49, 46, 49, 13, 10, 72, 111,
    115, 116, 58, 32, 111, 99, 112, 112, 46, 101, 120, 97, 109, 112, 108, 101,
    46, 99, 111, 109, 13, 10, 85, 112, 103, 114, 97, 100, 101, 58, 32, 119,
    101, 98, 115, 111, 99, 107, 101, 116, 13, 10, 67, 111, 110, 110, 101, 99,
    116, 105, 111, 110, 58, 32, 85, 112, 103, 114, 97, 100, 101, 13, 10, 83,
    101, 99, 45, 87, 101, 98, 83, 111, 99, 107, 101, 116, 45, 75, 101, 121,
    58, 32>>
  \o KeySample
  \o <<13, 10, 83, 101, 99, 45, 87, 101, 98, 83, 111, 99, 107, 101, 116, 45,
       86, 101, 114, 115, 105, 111, 110, 58, 32, 49, 51, 13, 10, 13, 10>>

\* "HTTP/1.1 101 Switching Protocols\r\nUpgrade: websocket\r\nConnection: Upgrade\r\n
\* Sec-WebSocket-Accept: "
ResponseHead ==
  <<72, 84, 84, 80, 47, 49, 46, 49, 32, 49, 48, 49, 32, 83, 119, 105, 116, 99,
    104, 105, 110, 103, 32, 80, 114, 111, 116, 111, 99, 111, 108, 115, 13, 10,
    85, 112, 103, 114, 97, 100, 101, 58, 32, 119, 101, 98, 115, 111, 99, 107,
    101, 116, 13, 10, 67, 111, 110, 110, 101, 99, 116, 105, 111, 110, 58, 32,
    85, 112, 103, 114, 97, 100, 101, 13, 10, 83, 101, 99, 45, 87, 101, 98, 83,
    111, 99, 107, 101, 116, 45, 65, 99, 99, 101, 112, 116, 58, 32>>

\* "s3pPLMBiTxaQ9kYGzzhZRbK+xOo="
AcceptSample ==
  <<115, 51, 112, 80, 76, 77, 66, 105, 84, 120, 97, 81, 57, 107, 89, 71, 122,
    122, 104, 90, 82, 98, 75, 43, 120, 79, 111, 61>>

\* the response handleWallboxClients() prints when the request is complete
HandshakeResponse == ResponseHead \o AcceptSample \o CRLFCRLF

(***************************************************************************)
(* Manual-TCP gateway: state                                               *)
(***************************************************************************)
\* a transport: "none" no socket, "up" connected, "down" closed by the peer;
\* rx the bytes received and not yet read (client.available())
NoSock == [st |-> "none", rx |-> <<>>]

FreshSock == [st |-> "up", rx |-> <<>>]

\* one entry of `out`: the transport written to ("wallbox" with its slot,
\* "backend", "new" for a connection not admitted), the call and the bytes;
\* a write to the backend carries the slot whose message it forwards
Ev(dst, slot, op, data) == [dst |-> dst, slot |-> slot, op |-> op, data |-> data]

\* struct WallboxConnection after static initialisation and setup()
IdleWallbox ==
  [active |-> FALSE, wsHandshakeDone |-> FALSE, buffer |-> <<>>, lastActivity |-> 0]

\* the globals of the manual-TCP gateway after setup()
NiclaBoot ==
  /\ wallboxClients = [i \in Slots |-> IdleWallbox]
  /\ wallboxSock = [i \in Slots |-> NoSock]
  /\ pendingWallbox = FALSE
  /\ backendConnected = FALSE
  /\ backendWsHandshakeDone = FALSE
  /\ backendBuffer = <<>>
  /\ lastBackendAttempt = 0
  /\ backendSock = NoSock
  /\ connectLog = <<>>

\* struct WallboxSession after resetSession(), and a WebSocketsClient that
\* was never begun
IdleSession ==
  [active |-> FALSE, wallboxId |-> INVALID_WALLBOX_ID, lastBackendAttempt |-> 0]

\* host is the target its begin() was given
IdleLink == [begun |-> FALSE, connected |-> FALSE, host |-> -1]

\* no begin() yet: prev and last are the millis() of the latest two calls,
\* resetBetween whether the slot was reset between them, resetSince whether
\* it was reset after the latest
NoBegin == [prev |-> -1, last |-> -1, resetBetween |-> FALSE, resetSince |-> FALSE]

\* struct ProxyEndpoint after static initialisation
IdleEndpoint == [active |-> FALSE, clientId |-> 0, backend |-> IdleLink]

\* the globals of the per-session proxies after setup()
ProxyBoot ==
  /\ serverClients = {}
  /\ configValid \in (IF sketch \in {"abc", "atom"} THEN BOOLEAN ELSE {TRUE})
  /\ backendHost = 0
  /\ wallboxActive = [i \in Slots |-> FALSE]
  /\ backendClient = IdleLink
  /\ sessions = [i \in Slots |-> IdleSession]
  /\ backendClients = [i \in Slots |-> IdleLink]
  /\ beginLog = [i \in Slots |-> NoBegin]
  /\ endpoints = [i \in Slots |-> IdleEndpoint]

\* one of the gateways `sks` after setup(), with millis() = t
BootAt(sks, t) ==
  /\ sketch \in sks
  /\ now = t
  /\ out = <<>>
  /\ NiclaBoot
  /\ ProxyBoot

(***************************************************************************)
(* Manual-TCP gateway: the environment                                     *)
(***************************************************************************)
LiveWallboxes == {i \in Slots : wallboxSock[i].st # "none"}

\* the transports with bytes received and not yet read; -1 is the backend's
Unread ==
  {i \in Slots : wallboxSock[i].rx # <<>>} \cup (IF backendSock.rx # <<>> THEN {-1} ELSE {})

\* a wallbox opens a TCP connection to port 8080; at most `cap` connections
\* exist at once, the waiting one included
WallboxConnects(cap) ==
  /\ OnNicla
  /\ ~pendingWallbox
  /\ Cardinality(LiveWallboxes) < cap
  /\ pendingWallbox' = TRUE
  /\ out' = <<>>
  /\ UNCHANGED <<wallboxClients, wallboxSock, backendConnected, backendWsHandshakeDone,
                 backendBuffer, lastBackendAttempt, backendSock, now, connectLog>>

\* the wallbox of slot i sends one piece; the previous piece has been read
WallboxSends(i, chunk) ==
  /\ OnNicla
  /\ wallboxSock[i].st = "up"
  /\ wallboxSock[i].rx = <<>>
  /\ wallboxClients[i].buffer = <<>>
  /\ Cardinality(Unread) < MaxUnread
  /\ wallboxSock' = [wallboxSock EXCEPT ![i].rx = chunk]
  /\ out' = <<>>
  /\ UNCHANGED <<wallboxClients, pendingWallbox, backendConnected, backendWsHandshakeDone,
                 backendBuffer, lastBackendAttempt, backendSock, now, connectLog>>

\* the wallbox of slot i closes its connection
WallboxCloses(i) ==
  /\ OnNicla
  /\ wallboxSock[i].st = "up"
  /\ wallboxSock' = [wallboxSock EXCEPT ![i].st = "down"]
  /\ out' = <<>>
  /\ UNCHANGED <<wallboxClients, pendingWallbox, backendConnected, backendWsHandshakeDone,
                 backendBuffer, lastBackendAttempt, backendSock, now, connectLog>>

\* the backend sends one piece on the established connection
BackendSends(chunk) ==
  /\ OnNicla
  /\ backendSock.st = "up"
  /\ backendSock.rx = <<>>
  /\ backendBuffer = <<>>
  /\ Cardinality(Unread) < MaxUnread
  /\ backendSock' = [backendSock EXCEPT !.rx = chunk]
  /\ out' = <<>>
  /\ UNCHANGED <<wallboxClients, wallboxSock, pendingWallbox, backendConnected,
                 backendWsHandshakeDone, backendBuffer, lastBackendAttempt, now,
                 connectLog>>

\* the backend closes the connection
BackendCloses ==
  /\ OnNicla
  /\ backendSock.st = "up"
  /\ backendSock' = [backendSock EXCEPT !.st = "down"]
  /\ out' = <<>>
  /\ UNCHANGED <<wallboxClients, wallboxSock, pendingWallbox, backendConnected,
                 backendWsHandshakeDone, backendBuffer, lastBackendAttempt, now,
                 connectLog>>

\* time passes
Tick ==
  /\ now + TimeStep <= MaxTime
  /\ now' = now + TimeStep
  /\ out' = <<>>
  /\ UNCHANGED <<sketch, nvars, pvars>>

(***************************************************************************)
(* Manual-TCP gateway: the handlers called from loop()                     *)
(***************************************************************************)
\* a search that answers slot 0 when no entry is free
getFreeWallboxSlotOrFirst ==
  LET free == {i \in Slots : ~wallboxClients[i].active}
  IN  IF free = {} THEN 0 ELSE SetMin(free)

\* a search that finds no entry
getFreeWallboxSlotNone ==
  LET free == {}
  IN  IF free = {} THEN -1 ELSE SetMin(free)

\* a search from the last entry down
getFreeWallboxSlotLast ==
  LET free == {i \in Slots : ~wallboxClients[i].active}
  IN  IF free = {} THEN -1 ELSE CHOOSE i \in free : \A k \in free : k <= i

\* getFreeWallboxSlot(): lowest index of an inactive entry, -1 when none
getFreeWallboxSlot ==
  LET free == {i \in Slots : ~wallboxClients[i].active}
  IN  IF free = {} THEN -1 ELSE SetMin(free)

\* an accept that takes the entry as the previous connection left it
acceptKeepsEntry ==
  /\ OnNicla
  /\ pendingWallbox
  /\ pendingWallbox' = FALSE
  /\ LET slot == getFreeWallboxSlot
     IN  IF slot >= 0
           THEN /\ wallboxClients' =
                     [wallboxClients EXCEPT ![slot].active = TRUE,
                                            ![slot].lastActivity = now]
                /\ wallboxSock' = [wallboxSock EXCEPT ![slot] = FreshSock]
                /\ out' = <<Ev("wallbox", slot, "accept", <<>>)>>
           ELSE /\ out' = <<Ev("new", -1, "stop", <<>>)>>
                /\ UNCHANGED <<wallboxClients, wallboxSock>>
  /\ UNCHANGED <<backendConnected, backendWsHandshakeDone, backendBuffer,
                 lastBackendAttempt, backendSock, now, connectLog>>

\* acceptWallboxConnections(), with a connection waiting
acceptWallboxConnections ==
  /\ OnNicla
  /\ pendingWallbox
  /\ pendingWallbox' = FALSE
  /\ LET slot == getFreeWallboxSlot
     IN  IF slot >= 0
           THEN /\ wallboxClients' =
                     [wallboxClients EXCEPT ![slot] =
                        [active |-> TRUE, wsHandshakeDone |-> FALSE, buffer |-> <<>>,
                         lastActivity |-> now]]
                /\ wallboxSock' = [wallboxSock EXCEPT ![slot] = FreshSock]
                /\ out' = <<Ev("wallbox", slot, "accept", <<>>)>>
           ELSE /\ out' = <<Ev("new", -1, "stop", <<>>)>>
                /\ UNCHANGED <<wallboxClients, wallboxSock>>
  /\ UNCHANGED <<backendConnected, backendWsHandshakeDone, backendBuffer,
                 lastBackendAttempt, backendSock, now, connectLog>>

\* handleWallboxClients(), line 509: the entry of a session whose transport
\* was found closed
\* an eviction that leaves the entry active
evictKeepsActive(wc) == wc

evictWallbox(wc) == [wc EXCEPT !.active = FALSE]

\* the body of handleWallboxClients()'s loop for slot i: the entry, its
\* transport and the writes it makes
WallboxPass(i) ==
  LET wc == wallboxClients[i]
      sk == wallboxSock[i]
  IN
  IF ~wc.active THEN [wc |-> wc, sk |-> sk, out |-> <<>>]
  ELSE IF sk.st # "up"
    THEN [wc |-> evictWallbox(wc), sk |-> NoSock,
          out |-> <<Ev("wallbox", i, "stop", <<>>)>>]
  ELSE
    LET buf == wc.buffer \o sk.rx
        wc1 == [wc EXCEPT !.buffer = buf,
                          !.lastActivity = IF sk.rx # <<>> THEN now ELSE @]
        sk1 == [sk EXCEPT !.rx = <<>>]
    IN
    IF ~wc.wsHandshakeDone
      THEN IF IndexOf(buf, CRLFCRLF) > 0
             THEN [wc |-> [wc1 EXCEPT !.wsHandshakeDone = TRUE, !.buffer = <<>>],
                   sk |-> sk1,
                   out |-> <<Ev("wallbox", i, "print", HandshakeResponse)>>]
             ELSE [wc |-> wc1, sk |-> sk1, out |-> <<>>]
      ELSE
        LET d == decodeWebSocketFrame(buf)
        IN  [wc |-> [wc1 EXCEPT !.buffer = d.buffer],
             sk |-> sk1,
             out |-> IF Len(d.message) > 0 /\ backendConnected /\ backendWsHandshakeDone
                       THEN <<Ev("backend", i, "print", encodeWebSocketFrame(d.message))>>
                       ELSE <<>>]

RECURSIVE PassWrites(_)
\* the writes of slots 0 .. n, in loop order
PassWrites(n) == IF n < 0 THEN <<>> ELSE PassWrites(n - 1) \o WallboxPass(n).out

\* handleWallboxClients()
handleWallboxClients ==
  /\ OnNicla
  /\ wallboxClients' = [i \in Slots |-> WallboxPass(i).wc]
  /\ wallboxSock' = [i \in Slots |-> WallboxPass(i).sk]
  /\ out' = PassWrites(MAX_WALLBOX_CLIENTS - 1)
  /\ UNCHANGED <<pendingWallbox, backendConnected, backendWsHandshakeDone, backendBuffer,
                 lastBackendAttempt, backendSock, now, connectLog>>

\* a throttle that never holds a connect back
BackoffIgnored(t, last) == TRUE

\* a throttle that never lets a connect through
BackoffNever(t, last) == FALSE

\* connectBackend()'s throttle: false while now - lastBackendAttempt < 5000
BackoffElapsed(t, last) == ~(t - last < BACKOFF_MS)

\* connectBackend(); `ok` is what backendClient.connect() returns
connectBackend(ok) ==
  IF backendConnected \/ ~BackoffElapsed(now, lastBackendAttempt)
    THEN /\ out' = <<>>
         /\ UNCHANGED <<backendConnected, backendWsHandshakeDone, backendBuffer,
                        lastBackendAttempt, backendSock, connectLog>>
    ELSE /\ lastBackendAttempt' = now
         /\ connectLog' = Append(connectLog, [at |-> now, ok |-> ok, host |-> backendHost])
         /\ IF ~ok
              THEN /\ out' = <<Ev("backend", -1, "connect", <<>>)>>
                   /\ UNCHANGED <<backendConnected, backendWsHandshakeDone,
                                  backendBuffer, backendSock>>
              ELSE /\ backendConnected' = TRUE
                   /\ backendWsHandshakeDone' = FALSE
                   /\ backendBuffer' = <<>>
                   /\ backendSock' = FreshSock
                   /\ out' = <<Ev("backend", -1, "connect", <<>>),
                               Ev("backend", -1, "print", BackendHandshake)>>

\* the frames handleBackend() prints for one decoded message: one to every
\* entry that is active with its handshake done, in slot order
RECURSIVE Broadcast(_, _)
Broadcast(n, frame) ==
  IF n < 0 THEN <<>>
  ELSE Broadcast(n - 1, frame)
       \o (IF wallboxClients[n].active /\ wallboxClients[n].wsHandshakeDone
             THEN <<Ev("wallbox", n, "print", frame)>>
             ELSE <<>>)

\* a loss of the backend that keeps the handshake flag
backendDisconnectedKeepsFlag ==
  /\ backendSock' = NoSock
  /\ backendConnected' = FALSE
  /\ out' = <<Ev("backend", -1, "stop", <<>>)>>
  /\ UNCHANGED <<wallboxClients, wallboxSock, backendWsHandshakeDone, backendBuffer,
                 lastBackendAttempt, connectLog>>

\* a loss of the backend that also evicts every wallbox
backendDisconnectedEvicting ==
  /\ backendSock' = NoSock
  /\ backendConnected' = FALSE
  /\ backendWsHandshakeDone' = FALSE
  /\ out' = <<Ev("backend", -1, "stop", <<>>)>>
  /\ wallboxClients' = [i \in Slots |-> evictWallbox(wallboxClients[i])]
  /\ UNCHANGED <<wallboxSock, backendBuffer, lastBackendAttempt, connectLog>>

\* handleBackend(), lines 600-606: the transport is gone
backendDisconnected ==
  /\ backendSock' = NoSock
  /\ backendConnected' = FALSE
  /\ backendWsHandshakeDone' = FALSE
  /\ out' = <<Ev("backend", -1, "stop", <<>>)>>
  /\ UNCHANGED <<wallboxClients, wallboxSock, backendBuffer, lastBackendAttempt,
                 connectLog>>

\* handleBackend(), lines 613-629: the handshake response, buf being the
\* bytes read so far
backendHandshake(buf) ==
  /\ UNCHANGED <<wallboxClients, wallboxSock, lastBackendAttempt, connectLog>>
  /\ IF IndexOf(buf, CRLFCRLF) > 0
       THEN IF IndexOf(buf, Str101) > 0
              THEN /\ backendWsHandshakeDone' = TRUE
                   /\ backendBuffer' = Substring(buf, IndexOf(buf, CRLFCRLF) + 4)
                   /\ backendSock' = [backendSock EXCEPT !.rx = <<>>]
                   /\ out' = <<>>
                   /\ UNCHANGED backendConnected
              ELSE /\ backendSock' = NoSock
                   /\ backendConnected' = FALSE
                   /\ backendBuffer' = buf
                   /\ out' = <<Ev("backend", -1, "stop", <<>>)>>
                   /\ UNCHANGED backendWsHandshakeDone
       ELSE /\ backendBuffer' = buf
            /\ backendSock' = [backendSock EXCEPT !.rx = <<>>]
            /\ out' = <<>>
            /\ UNCHANGED <<backendConnected, backendWsHandshakeDone>>

\* a back-end reader that decodes frames as long as two are buffered
backendMessageTwice(buf) ==
  LET d == decodeWebSocketFrame(buf)
      e == decodeWebSocketFrame(d.buffer)
  IN  /\ backendBuffer' = e.buffer
      /\ backendSock' = [backendSock EXCEPT !.rx = <<>>]
      /\ out' = (IF Len(d.message) > 0
                   THEN Broadcast(MAX_WALLBOX_CLIENTS - 1, encodeWebSocketFrame(d.message))
                   ELSE <<>>)
                \o (IF Len(e.message) > 0
                      THEN Broadcast(MAX_WALLBOX_CLIENTS - 1, encodeWebSocketFrame(e.message))
                      ELSE <<>>)
      /\ UNCHANGED <<wallboxClients, wallboxSock, backendConnected,
                     backendWsHandshakeDone, lastBackendAttempt, connectLog>>

\* handleBackend(), lines 631-645: one frame of the bytes read so far
backendMessage(buf) ==
  LET d == decodeWebSocketFrame(buf)
  IN  /\ backendBuffer' = d.buffer
      /\ backendSock' = [backendSock EXCEPT !.rx = <<>>]
      /\ out' = IF Len(d.message) > 0
                  THEN Broadcast(MAX_WALLBOX_CLIENTS - 1, encodeWebSocketFrame(d.message))
                  ELSE <<>>
      /\ UNCHANGED <<wallboxClients, wallboxSock, backendConnected,
                     backendWsHandshakeDone, lastBackendAttempt, connectLog>>

\* handleBackend()
handleBackend ==
  /\ OnNicla
  /\ UNCHANGED <<pendingWallbox, now>>
  /\ IF ~backendConnected
       THEN /\ \E ok \in BOOLEAN : connectBackend(ok)
            /\ UNCHANGED <<wallboxClients, wallboxSock>>
     ELSE IF backendSock.st # "up"
       THEN backendDisconnected
     ELSE IF ~backendWsHandshakeDone
       THEN backendHandshake(backendBuffer \o backendSock.rx)
     ELSE backendMessage(backendBuffer \o backendSock.rx)

(***************************************************************************)
(* Broadcast gateway over WebSockets2_Generic (src/unnamed/part_001)       *)
(* wallboxSock[i] is wallboxClients[i], backendSock is backendClient:      *)
(* available() is st = "up", rx holds the messages received and not polled *)
(***************************************************************************)
available(sock) == sock.st = "up"

AvailableWallboxes == {i \in Slots : available(wallboxSock[i])}

\* the messages a peer of the library-based gateways sends
Messages == {PayloadHi, <<>>}

\* a wallbox completes a WebSocket connection to wsServer; at most `cap`
\* exist at once, the waiting one included
WsWallboxConnects(cap) ==
  /\ OnWs
  /\ ~pendingWallbox
  /\ Cardinality(AvailableWallboxes) < cap
  /\ pendingWallbox' = TRUE
  /\ out' = <<>>
  /\ UNCHANGED <<wallboxSock, backendSock, lastBackendAttempt, connectLog, now>>

\* the wallbox of slot i sends a message
WsWallboxSends(i, msg) ==
  /\ OnWs
  /\ available(wallboxSock[i])
  /\ wallboxSock[i].rx = <<>>
  /\ Cardinality(Unread) < MaxUnread
  /\ wallboxSock' = [wallboxSock EXCEPT ![i].rx = <<msg>>]
  /\ out' = <<>>
  /\ UNCHANGED <<pendingWallbox, backendSock, lastBackendAttempt, connectLog, now>>

\* the wallbox of slot i closes its connection
WsWallboxCloses(i) ==
  /\ OnWs
  /\ available(wallboxSock[i])
  /\ wallboxSock' = [wallboxSock EXCEPT ![i] = [st |-> "down", rx |-> <<>>]]
  /\ out' = <<>>
  /\ UNCHANGED <<pendingWallbox, backendSock, lastBackendAttempt, connectLog, now>>

\* the backend sends a message
WsBackendSends(msg) ==
  /\ OnWs
  /\ available(backendSock)
  /\ backendSock.rx = <<>>
  /\ Cardinality(Unread) < MaxUnread
  /\ backendSock' = [backendSock EXCEPT !.rx = <<msg>>]
  /\ out' = <<>>
  /\ UNCHANGED <<wallboxSock, pendingWallbox, lastBackendAttempt, connectLog, now>>

\* the backend closes the connection
WsBackendCloses ==
  /\ OnWs
  /\ available(backendSock)
  /\ backendSock' = [st |-> "down", rx |-> <<>>]
  /\ out' = <<>>
  /\ UNCHANGED <<wallboxSock, pendingWallbox, lastBackendAttempt, connectLog, now>>

\* getFreeClientIndex(): lowest index of a client that is not available, -1
\* when none
getFreeClientIndex ==
  LET free == {i \in Slots : ~available(wallboxSock[i])}
  IN  IF free = {} THEN -1 ELSE SetMin(free)

\* listenForWallboxes(), with wsServer.poll() true
listenForWallboxes ==
  /\ OnWs
  /\ pendingWallbox
  /\ pendingWallbox' = FALSE
  /\ LET idx == getFreeClientIndex
     IN  IF idx >= 0
           THEN /\ wallboxSock' = [wallboxSock EXCEPT ![idx] = FreshSock]
                /\ out' = <<Ev("wallbox", idx, "accept", <<>>)>>
           ELSE /\ out' = <<Ev("new", -1, "close", <<>>)>>
                /\ UNCHANGED wallboxSock
  /\ UNCHANGED <<backendSock, lastBackendAttempt, connectLog, now>>

\* onWallboxMessage(), for a message of the client in slot i
onWallboxMessage(i, msg) ==
  IF ~available(backendSock) THEN <<>> ELSE <<Ev("backend", i, "send", msg)>>

\* loop(), lines 579-583: poll() of the client in slot i delivers a message
PollWallbox(i) ==
  /\ OnWs
  /\ available(wallboxSock[i])
  /\ wallboxSock[i].rx # <<>>
  /\ wallboxSock' = [wallboxSock EXCEPT ![i].rx = <<>>]
  /\ out' = onWallboxMessage(i, Head(wallboxSock[i].rx))
  /\ UNCHANGED <<pendingWallbox, backendSock, lastBackendAttempt, connectLog, now>>

RECURSIVE onBackendMessage(_, _)
\* onBackendMessage(): the sends to slots 0 .. n, in loop order
onBackendMessage(n, msg) ==
  IF n < 0 THEN <<>>
  ELSE onBackendMessage(n - 1, msg)
       \o (IF available(wallboxSock[n]) THEN <<Ev("wallbox", n, "send", msg)>> ELSE <<>>)

\* loop(), lines 585-586: poll() of the backend client delivers a message
PollBackend ==
  /\ OnWs
  /\ available(backendSock)
  /\ backendSock.rx # <<>>
  /\ backendSock' = [backendSock EXCEPT !.rx = <<>>]
  /\ out' = onBackendMessage(MAX_WALLBOX_CLIENTS - 1, Head(backendSock.rx))
  /\ UNCHANGED <<wallboxSock, pendingWallbox, lastBackendAttempt, connectLog, now>>

\* connectBackend()'s throttle in part_001: false while now - lastBackendAttempt < 5000
ThrottleElapsed(t, last) == ~(t - last < BACKOFF_MS)

\* loop(), lines 587-588: connectBackend() of part_001; `ok` is what
\* backendClient.connect() returns
connectBackendWs(ok) ==
  /\ OnWs
  /\ ~available(backendSock)
  /\ UNCHANGED <<wallboxSock, pendingWallbox, now>>
  /\ IF ~ThrottleElapsed(now, lastBackendAttempt)
       THEN /\ out' = <<>>
            /\ UNCHANGED <<backendSock, lastBackendAttempt, connectLog>>
       ELSE /\ lastBackendAttempt' = now
            /\ connectLog' = Append(connectLog, [at |-> now, ok |-> ok, host |-> backendHost])
            /\ backendSock' = IF ok THEN FreshSock ELSE backendSock
            /\ out' = <<Ev("backend", -1, "connect", <<>>)>>

(***************************************************************************)
(* Broadcast proxy over the WebSockets library (atom_s3_ocpp_proxy.ino,    *)
(* second sketch).  wallboxServer calls wallboxEvent() with the client     *)
(* number; backendClient is a WebSocketsClient: begin() arms it, its       *)
(* loop() connects it while it is armed and not connected, disconnect()    *)
(* closes the connection.                                                  *)
(***************************************************************************)
\* activeClientCount() of the broadcast proxy
activeClientCount == Cardinality({i \in Slots : wallboxActive[i]})

\* ensureBackendConnected()'s gate: false while millis() - lastBackendAttempt < 5000
GateElapsed(t, last) == ~(t - last < BACKOFF_MS)

\* ensureBackendConnected() calls backendClient.begin() in this state
BeginDue ==
  /\ configValid
  /\ ~backendClient.connected
  /\ GateElapsed(now, lastBackendAttempt)

\* ensureBackendConnected() of the broadcast proxy, `log` being what the
\* caller has written so far in the step
ensureBackendConnectedBc(log) ==
  IF BeginDue
    THEN /\ lastBackendAttempt' = now
         /\ connectLog' = Append(connectLog, [at |-> now, ok |-> FALSE, host |-> backendHost])
         /\ backendClient' = [backendClient EXCEPT !.begun = TRUE, !.host = backendHost]
         /\ out' = log \o <<Ev("backend", -1, "begin", <<>>)>>
    ELSE /\ out' = log
         /\ UNCHANGED <<lastBackendAttempt, connectLog, backendClient>>

\* loop(), line 510
EnsureBc ==
  /\ OnAbc
  /\ ensureBackendConnectedBc(<<>>)
  /\ UNCHANGED <<serverClients, wallboxActive, now>>

\* wallboxEvent(client, WStype_CONNECTED): client number c completes its
\* connection; a rejected client is disconnected, which makes the server
\* call wallboxEvent(c, WStype_DISCONNECTED) before it returns
WallboxConnectedBc(c) ==
  /\ OnAbc
  /\ c \notin serverClients
  /\ UNCHANGED now
  /\ IF activeClientCount >= MAX_WALLBOX_CLIENTS
       THEN /\ wallboxActive' = [wallboxActive EXCEPT ![c % MAX_WALLBOX_CLIENTS] = FALSE]
            /\ out' = <<Ev("wallbox", c, "disconnect", <<>>)>>
            /\ UNCHANGED <<serverClients, lastBackendAttempt, connectLog, backendClient>>
       ELSE /\ wallboxActive' = [wallboxActive EXCEPT ![c % MAX_WALLBOX_CLIENTS] = TRUE]
            /\ serverClients' = serverClients \cup {c}
            /\ ensureBackendConnectedBc(<<>>)

\* wallboxEvent(client, WStype_DISCONNECTED): client c has gone
WallboxDisconnectedBc(c) ==
  /\ OnAbc
  /\ c \in serverClients
  /\ serverClients' = serverClients \ {c}
  /\ wallboxActive' = [wallboxActive EXCEPT ![c % MAX_WALLBOX_CLIENTS] = FALSE]
  /\ out' = <<>>
  /\ UNCHANGED <<lastBackendAttempt, connectLog, backendClient, now>>

\* wallboxEvent(client, WStype_TEXT)
WallboxTextBc(c, msg) ==
  /\ OnAbc
  /\ c \in serverClients
  /\ out' = IF backendClient.connected
              THEN <<Ev("backend", c, "sendTXT", msg)>>
              ELSE <<>>
  /\ UNCHANGED <<serverClients, wallboxActive, lastBackendAttempt, connectLog,
                 backendClient, now>>

RECURSIVE broadcastTXT(_, _)
\* wallboxServer.broadcastTXT(): one message to every connected client, in
\* order of client number
broadcastTXT(n, msg) ==
  IF n < 0 THEN <<>>
  ELSE broadcastTXT(n - 1, msg)
       \o (IF n \in serverClients THEN <<Ev("wallbox", n, "sendTXT", msg)>> ELSE <<>>)

\* backendClient.loop(), line 514: an armed client that is not connected
\* tries to connect; a connected one may find its connection lost
BackendLoopBc ==
  /\ OnAbc
  /\ backendClient.begun
  /\ \E up \in BOOLEAN : backendClient' = [backendClient EXCEPT !.connected = up]
  /\ out' = <<>>
  /\ UNCHANGED <<serverClients, wallboxActive, lastBackendAttempt, connectLog, now>>

\* backendClient.loop() delivers a Text message: onBackendMessage()
BackendTextBc(maxId, msg) ==
  /\ OnAbc
  /\ backendClient.connected
  /\ out' = broadcastTXT(maxId, msg)
  /\ UNCHANGED <<serverClients, wallboxActive, lastBackendAttempt, connectLog,
                 backendClient, now>>

(***************************************************************************)
(* Per-session proxy (atom_s3_ocpp_proxy.ino, first sketch).  A handler is *)
(* a function of the record Step: S the sessions, B the backend clients,   *)
(* G their begin() log, C the clients connected to wallboxServer, out what *)
(* the handler has written so far.                                         *)
(***************************************************************************)
Step ==
  [S |-> sessions, B |-> backendClients, G |-> beginLog, C |-> serverClients, out |-> <<>>]

\* beginLog[slot] after a begin() at millis() = t, and after a reset
LogBegin(g, t) ==
  [prev |-> g.last, last |-> t, resetBetween |-> g.resetSince, resetSince |-> FALSE]

LogReset(g) == [g EXCEPT !.resetSince = (g.last # -1)]

\* a reset that clears every session and closes every backend client
resetEverySession(st, slot) ==
  [st EXCEPT !.S = [i \in Slots |-> IdleSession],
             !.B = [i \in Slots |-> [st.B[i] EXCEPT !.connected = FALSE]],
             !.G[slot] = LogReset(@),
             !.out = Append(@, Ev("backend", slot, "disconnect", <<>>))]

\* resetSession(slot)
resetSession(st, slot) ==
  [st EXCEPT !.S[slot] = IdleSession,
             !.B[slot].connected = FALSE,
             !.G[slot] = LogReset(@),
             !.out = Append(@, Ev("backend", slot, "disconnect", <<>>))]

\* a search that does not compare the client number
findAnySession(S, wallboxId) ==
  LET hits == {i \in Slots : S[i].active}
  IN  IF hits = {} THEN -1 ELSE SetMin(hits)

\* a search that finds no session of any client
findNoSession(S, wallboxId) ==
  LET hits == {i \in Slots : S[i].active /\ S[i].wallboxId = wallboxId /\ ~S[i].active}
  IN  IF hits = {} THEN -1 ELSE SetMin(hits)

\* findSessionByWallbox(wallboxId)
findSessionByWallbox(S, wallboxId) ==
  LET hits == {i \in Slots : S[i].active /\ S[i].wallboxId = wallboxId}
  IN  IF hits = {} THEN -1 ELSE SetMin(hits)

\* a gate that never holds a begin() back
AttemptAlwaysDue(t, last) == TRUE

\* ensureBackendConnected(slot)'s gate: false while
\* millis() - sessions[slot].lastBackendAttempt < 5000
AttemptDue(t, last) == ~(t - last < BACKOFF_MS)

\* ensureBackendConnected(slot)
ensureBackendConnected(st, slot) ==
  IF ~configValid \/ ~st.S[slot].active THEN st
  ELSE IF st.B[slot].connected THEN st
  ELSE IF ~AttemptDue(now, st.S[slot].lastBackendAttempt) THEN st
  ELSE [st EXCEPT !.S[slot].lastBackendAttempt = now,
                  !.B[slot].begun = TRUE,
                  !.B[slot].host = backendHost,
                  !.G[slot] = LogBegin(@, now),
                  !.out = Append(@, Ev("backend", slot, "begin", <<>>))]

\* activeClientCount() of the per-session proxy
activeSessionCount(S) == Cardinality({i \in Slots : S[i].active})

\* wallboxEvent(client, WStype_DISCONNECTED)
wallboxDisconnected(st, client) ==
  LET disconnectSlot == findSessionByWallbox(st.S, client)
  IN  IF disconnectSlot >= 0 THEN resetSession(st, disconnectSlot) ELSE st

\* wallboxServer.disconnect(client): the server closes the client and calls
\* wallboxEvent(client, WStype_DISCONNECTED)
serverDisconnect(st, client) ==
  wallboxDisconnected(
    [st EXCEPT !.C = @ \ {client},
               !.out = Append(@, Ev("wallbox", client, "disconnect", <<>>))],
    client)

\* wallboxEvent(client, WStype_CONNECTED)
wallboxConnected(st, client) ==
  IF activeSessionCount(st.S) >= MAX_WALLBOX_CLIENTS THEN serverDisconnect(st, client)
  ELSE
    LET existingSlot == findSessionByWallbox(st.S, client)
        st1  == IF existingSlot >= 0 THEN resetSession(st, existingSlot) ELSE st
        free == {i \in Slots : ~st1.S[i].active}
    IN  IF free = {} THEN serverDisconnect(st1, client)
        ELSE ensureBackendConnected(
               [st1 EXCEPT !.S[SetMin(free)].active = TRUE,
                           !.S[SetMin(free)].wallboxId = client],
               SetMin(free))

\* a Text handler that sends whether the backend client is connected or not
wallboxTextUnguarded(st, client, msg) ==
  LET slot == findSessionByWallbox(st.S, client)
  IN  IF slot < 0 THEN st
      ELSE [ensureBackendConnected(st, slot)
              EXCEPT !.out = Append(@, Ev("backend", slot, "sendTXT", msg))]

\* wallboxEvent(client, WStype_TEXT)
wallboxText(st, client, msg) ==
  LET slot == findSessionByWallbox(st.S, client)
  IN  IF slot < 0 THEN st
      ELSE LET st1 == ensureBackendConnected(st, slot)
           IN  IF st1.B[slot].connected
                 THEN [st1 EXCEPT !.out = Append(@, Ev("backend", slot, "sendTXT", msg))]
                 ELSE st1

\* handleBackendMessage(slot, WStype_TEXT, payload, length)
handleBackendMessage(st, slot, msg) ==
  IF st.S[slot].active /\ st.S[slot].wallboxId # INVALID_WALLBOX_ID
    THEN [st EXCEPT !.out = Append(@, Ev("wallbox", st.S[slot].wallboxId, "sendTXT", msg))]
    ELSE st

RECURSIVE ensureAll(_, _)
\* loop(), lines 283-285: ensureBackendConnected(i) for slots 0 .. n
ensureAll(st, n) ==
  IF n < 0 THEN st ELSE ensureBackendConnected(ensureAll(st, n - 1), n)

\* the step that leaves the proxy as the handler left `st`
Commit(st) ==
  /\ sessions' = st.S
  /\ backendClients' = st.B
  /\ beginLog' = st.G
  /\ serverClients' = st.C
  /\ out' = st.out
  /\ UNCHANGED now

\* client number c completes its connection to wallboxServer
WallboxConnected(c) ==
  /\ OnAtom
  /\ c \notin serverClients
  /\ Commit(wallboxConnected([Step EXCEPT !.C = @ \cup {c}], c))

\* client c has gone
WallboxDisconnected(c) ==
  /\ OnAtom
  /\ c \in serverClients
  /\ Commit(wallboxDisconnected([Step EXCEPT !.C = @ \ {c}], c))

\* client c sends a Text message
WallboxText(c, msg) ==
  /\ OnAtom
  /\ c \in serverClients
  /\ Commit(wallboxText(Step, c, msg))

EnsureAll ==
  /\ OnAtom
  /\ Commit(ensureAll(Step, MAX_WALLBOX_CLIENTS - 1))

\* loop(), lines 289-291: backendClients[i].loop() of an armed client, which
\* connects it when it is not connected and may find a connection lost
BackendLoop(i) ==
  /\ OnAtom
  /\ backendClients[i].begun
  /\ \E up \in BOOLEAN :
       Commit([Step EXCEPT !.B[i].connected = up])

\* backendClients[i].loop() delivers a Text message to backendHandlers[i]
BackendText(i, msg) ==
  /\ OnAtom
  /\ backendClients[i].connected
  /\ Commit(handleBackendMessage(Step, i, msg))

(***************************************************************************)
(* Per-session proxy (esp32_s3_ocpp_touch.ino).  A handler is a function   *)
(* of the record TouchStep: E the endpoints, G, C and out as above.        *)
(***************************************************************************)
TouchStep == [E |-> endpoints, G |-> beginLog, C |-> serverClients, out |-> <<>>]

\* findEndpointIndex(clientId)
findEndpointIndex(E, clientId) ==
  LET hits == {i \in Slots : E[i].active /\ E[i].clientId = clientId}
  IN  IF hits = {} THEN -1 ELSE SetMin(hits)

\* connectBackend(idx) of the touch proxy
connectBackendIdx(st, idx) ==
  [st EXCEPT !.E[idx].backend.begun = TRUE,
             !.E[idx].backend.host = backendHost,
             !.G[idx] = LogBegin(@, now),
             !.out = Append(@, Ev("backend", idx, "begin", <<>>))]

\* handleBackendEvent(idx, WStype_TEXT, payload, length)
handleBackendEvent(st, idx, msg) ==
  IF ~st.E[idx].active THEN st
  ELSE [st EXCEPT !.out = Append(@, Ev("wallbox", st.E[idx].clientId, "sendTXT", msg))]

\* handleWallboxEvent(clientId, WStype_DISCONNECTED)
endpointDisconnected(st, clientId) ==
  LET slot == findEndpointIndex(st.E, clientId)
  IN  IF slot < 0 THEN st
      ELSE [st EXCEPT !.E[slot].backend.connected = FALSE,
                      !.E[slot].active = FALSE,
                      !.G[slot] = LogReset(@),
                      !.out = Append(@, Ev("backend", slot, "disconnect", <<>>))]

\* handleWallboxEvent(clientId, WStype_CONNECTED); wallboxServer.disconnect()
\* makes the server call the handler with WStype_DISCONNECTED
endpointConnected(st, clientId) ==
  LET found == findEndpointIndex(st.E, clientId)
      free  == {i \in Slots : ~st.E[i].active}
      slot  == IF found >= 0 THEN found
               ELSE IF free = {} THEN -1 ELSE SetMin(free)
  IN  IF slot < 0
        THEN endpointDisconnected(
               [st EXCEPT !.C = @ \ {clientId},
                          !.out = Append(@, Ev("wallbox", clientId, "disconnect", <<>>))],
               clientId)
        ELSE connectBackendIdx(
               [st EXCEPT !.E[slot].active = TRUE, !.E[slot].clientId = clientId],
               slot)

\* handleWallboxEvent(clientId, WStype_TEXT): sendTXT() writes when the
\* backend client is connected
endpointText(st, clientId, msg) ==
  LET slot == findEndpointIndex(st.E, clientId)
  IN  IF slot >= 0 /\ st.E[slot].backend.connected
        THEN [st EXCEPT !.out = Append(@, Ev("backend", slot, "sendTXT", msg))]
        ELSE st

TouchCommit(st) ==
  /\ endpoints' = st.E
  /\ beginLog' = st.G
  /\ serverClients' = st.C
  /\ out' = st.out
  /\ UNCHANGED now

TouchWallboxConnected(c) ==
  /\ OnTouch
  /\ c \notin serverClients
  /\ TouchCommit(endpointConnected([TouchStep EXCEPT !.C = @ \cup {c}], c))

TouchWallboxDisconnected(c) ==
  /\ OnTouch
  /\ c \in serverClients
  /\ TouchCommit(endpointDisconnected([TouchStep EXCEPT !.C = @ \ {c}], c))

TouchWallboxText(c, msg) ==
  /\ OnTouch
  /\ c \in serverClients
  /\ TouchCommit(endpointText(TouchStep, c, msg))

\* loop(), lines 358-362: backend.loop() of an active endpoint connects its
\* client when it is not connected and may find a connection lost
TouchBackendLoop(i) ==
  /\ OnTouch
  /\ endpoints[i].active
  /\ endpoints[i].backend.begun
  /\ \E up \in BOOLEAN :
       TouchCommit([TouchStep EXCEPT !.E[i].backend.connected = up])

\* backend.loop() of an active endpoint delivers a Text message
TouchBackendText(i, msg) ==
  /\ OnTouch
  /\ endpoints[i].active
  /\ endpoints[i].backend.connected
  /\ TouchCommit(handleBackendEvent(TouchStep, i, msg))

(***************************************************************************)
(* Per-session proxies: specification                                      *)
(***************************************************************************)
\* payloads that name their sender: client c, backend link i
WallboxTag(c) == <<c>>

LinkTag(i) == <<100 + i>>

\* pairing: clients 0 .. MaxClient and their links, at one instant at which
\* a first connect is due
NextPair ==
  \/ \E c \in 0 .. MaxClient : WallboxConnected(c)
  \/ \E c \in 0 .. MaxClient : WallboxDisconnected(c)
  \/ \E c \in 0 .. MaxClient : WallboxText(c, WallboxTag(c))
  \/ EnsureAll
  \/ \E i \in Slots : BackendLoop(i)
  \/ \E i \in Slots : BackendText(i, LinkTag(i))
  \/ \E c \in 0 .. MaxClient : TouchWallboxConnected(c)
  \/ \E c \in 0 .. MaxClient : TouchWallboxDisconnected(c)
  \/ \E c \in 0 .. MaxClient : TouchWallboxText(c, WallboxTag(c))
  \/ \E i \in Slots : TouchBackendLoop(i)
  \/ \E i \in Slots : TouchBackendText(i, LinkTag(i))

SpecPair == BootAt({"atom", "touch"}, BACKOFF_MS) /\ [][NextPair]_vars

\* reconnecting under pairing: the sessions of slot 0, one after the other,
\* and its link over time
NextPairBackoff ==
  \/ WallboxConnected(0)
  \/ WallboxDisconnected(0)
  \/ WallboxText(0, WallboxTag(0))
  \/ EnsureAll
  \/ BackendLoop(0)
  \/ BackendText(0, LinkTag(0))
  \/ TouchWallboxConnected(0)
  \/ TouchWallboxDisconnected(0)
  \/ TouchWallboxText(0, WallboxTag(0))
  \/ TouchBackendLoop(0)
  \/ TouchBackendText(0, LinkTag(0))
  \/ Tick

SpecPairBackoff == BootAt({"atom", "touch"}, 0) /\ [][NextPairBackoff]_vars

(***************************************************************************)
(* Manual-TCP gateway: specifications                                      *)
(***************************************************************************)
\* admission and eviction: up to MAX_WALLBOX_CLIENTS + 1 wallboxes at once,
\* at the manual-TCP gateway and at the per-session proxy
NextAdmit ==
  \/ WallboxConnects(MAX_WALLBOX_CLIENTS + 1)
  \/ acceptWallboxConnections
  \/ \E i \in Slots : WallboxCloses(i)
  \/ handleWallboxClients
  \/ \E c \in 0 .. MAX_WALLBOX_CLIENTS : WallboxConnected(c)
  \/ \E c \in 0 .. MAX_WALLBOX_CLIENTS : WallboxDisconnected(c)

SpecAdmit == BootAt({"nicla", "atom"}, 0) /\ [][NextAdmit]_vars

\* peers that follow the protocol: the upgrade first, frames once it is answered
WallboxTurn(i) ==
  IF wallboxClients[i].wsHandshakeDone THEN WallboxFrames ELSE WallboxRequests

BackendTurn == IF backendWsHandshakeDone THEN BackendFrames ELSE BackendResponses

\* relaying: up to MaxRelaySessions wallboxes at once and one backend
\* connection, from the moment the first connect is due
NextRelay ==
  \/ WallboxConnects(MaxRelaySessions)
  \/ acceptWallboxConnections
  \/ \E i \in Slots : \E c \in WallboxTurn(i) : WallboxSends(i, c)
  \/ \E i \in Slots : WallboxCloses(i)
  \/ handleWallboxClients
  \/ \E c \in BackendTurn : BackendSends(c)
  \/ BackendCloses
  \/ handleBackend
  \/ WsWallboxConnects(MaxRelaySessions)
  \/ listenForWallboxes
  \/ \E i \in Slots : \E m \in Messages : WsWallboxSends(i, m)
  \/ \E i \in Slots : WsWallboxCloses(i)
  \/ \E i \in Slots : PollWallbox(i)
  \/ \E m \in Messages : WsBackendSends(m)
  \/ WsBackendCloses
  \/ PollBackend
  \/ \E ok \in BOOLEAN : connectBackendWs(ok)

SpecRelay == BootAt({"nicla", "ws2"}, BACKOFF_MS) /\ [][NextRelay]_vars

\* reconnecting: the backend link over time, with one wallbox
NextBackoff ==
  \/ WallboxConnects(1)
  \/ acceptWallboxConnections
  \/ \E c \in WallboxChunks : WallboxSends(0, c)
  \/ handleWallboxClients
  \/ \E c \in BackendResponses : BackendSends(c)
  \/ BackendCloses
  \/ handleBackend
  \/ WsWallboxConnects(1)
  \/ listenForWallboxes
  \/ \E m \in Messages : WsWallboxSends(0, m)
  \/ PollWallbox(0)
  \/ WsBackendCloses
  \/ \E ok \in BOOLEAN : connectBackendWs(ok)
  \/ EnsureBc
  \/ \E c \in 0 .. MaxClient : WallboxConnectedBc(c)
  \/ \E c \in 0 .. MaxClient : WallboxDisconnectedBc(c)
  \/ \E c \in 0 .. MaxClient : \E m \in Messages : WallboxTextBc(c, m)
  \/ BackendLoopBc
  \/ \E m \in Messages : BackendTextBc(MaxClient, m)
  \/ Tick

SpecBackoff == BootAt({"nicla", "ws2", "abc"}, 0) /\ [][NextBackoff]_vars

(***************************************************************************)
(* Manual-TCP gateway: properties                                          *)
(***************************************************************************)
\* the session of slot i is Open: admitted and its handshake answered
Open(i) == wallboxClients[i].active /\ wallboxClients[i].wsHandshakeDone

\* the entries of a step's log that are writes of bytes to wallbox slot i,
\* and those that forward a message of slot i to the backend
WriteOps == {"print", "send", "sendTXT"}

WritesTo(log, i) ==
  {k \in DOMAIN log : log[k].dst = "wallbox" /\ log[k].slot = i /\ log[k].op \in WriteOps}

UplinkOf(log, i) ==
  {k \in DOMAIN log : log[k].dst = "backend" /\ log[k].slot = i /\ log[k].op \in WriteOps}

Rejection == <<Ev("new", -1, "stop", <<>>)>>

C2_EvictionFreesSlots ==
  /\ [](\A i \in Slots : wallboxSock[i].st = "none" => ~wallboxClients[i].active)
  /\ [][ (sketch = "nicla" /\ pendingWallbox /\ ~pendingWallbox'
            /\ Cardinality(LiveWallboxes) < MAX_WALLBOX_CLIENTS)
           => /\ out' # Rejection
              /\ \E i \in Slots : /\ i \notin LiveWallboxes
                                  /\ out' = <<Ev("wallbox", i, "accept", <<>>)>>
                                  /\ wallboxClients'[i].active
                                  /\ wallboxSock'[i] = FreshSock ]_vars

\* slot 0 is admitted again while the four sessions admitted after its first
\* use are still there
C2_Witness ==
  /\ out = <<Ev("wallbox", 0, "accept", <<>>)>>
  /\ \A i \in Slots : wallboxClients[i].active

\* C3: a step of handleBackend() that reads one complete Text frame from the
\* backend, the link being up with its handshake done, writes exactly one
\* frame to every Open session and nothing to any other slot.
\* (part_001): a poll() of the backend client that delivers a message sends
\* it once to every available wallbox client and to no other.
C3_BroadcastFanOut ==
  [][ /\ (/\ sketch = "nicla"
          /\ backendConnected /\ backendWsHandshakeDone
          /\ backendSock.st = "up" /\ backendBuffer = <<>>
          /\ backendSock.rx \in BackendFrames
          /\ backendSock'.rx = <<>>)
           => \A i \in Slots :
                Cardinality(WritesTo(out', i)) = IF Open(i) THEN 1 ELSE 0
      /\ (/\ sketch = "ws2"
          /\ available(backendSock)
          /\ backendSock.rx # <<>>
          /\ backendSock'.rx = <<>>)
           => \A i \in Slots :
                Cardinality(WritesTo(out', i))
                  = IF available(wallboxSock[i]) THEN 1 ELSE 0 ]_vars

\* a frame that carries payload p as one Text message
CarriesText(data, p) == \E k \in {<<>>, MaskKey} : data = PeerFrame(TRUE, 1, k, p)

\* C4: a step of handleWallboxClients() that reads one complete Text frame
\* with payload p (empty or not) from Open session i, the backend link being
\* up with its handshake done, writes exactly one frame to the backend for
\* that session, and the frame carries p.
\* (part_001): a poll() that delivers message p of an available wallbox
\* client, the backend client being available, sends p once to the backend.
C4_BroadcastUplink ==
  [][ \A i \in Slots : \A p \in Messages :
        /\ (/\ sketch = "nicla"
            /\ Open(i) /\ wallboxSock[i].st = "up"
            /\ wallboxClients[i].buffer = <<>>
            /\ wallboxSock[i].rx = PeerFrame(TRUE, 1, MaskKey, p)
            /\ wallboxSock'[i].rx = <<>>
            /\ backendConnected /\ backendWsHandshakeDone)
             => /\ Cardinality(UplinkOf(out', i)) = 1
                /\ \A k \in UplinkOf(out', i) : CarriesText(out'[k].data, p)
        /\ (/\ sketch = "ws2"
            /\ available(wallboxSock[i])
            /\ wallboxSock[i].rx = <<p>>
            /\ wallboxSock'[i].rx = <<>>
            /\ available(wallboxSock'[i])
            /\ available(backendSock))
             => /\ Cardinality(UplinkOf(out', i)) = 1
                /\ \A k \in UplinkOf(out', i) : out'[k].data = p ]_vars

\* C7: a step in which the gateway gives up the backend link, after a
\* transport disconnect or a refused handshake, changes no wallbox entry and
\* no wallbox transport, and writes to no wallbox.
C7_BackendLossKeepsSessions ==
  [][ (sketch = "nicla" /\ backendConnected /\ ~backendConnected')
        => /\ wallboxClients' = wallboxClients
           /\ wallboxSock' = wallboxSock
           /\ \A k \in DOMAIN out' : out'[k].dst = "backend" ]_vars

\* the link was just given up with one session Open and another one waiting
\* for its handshake
C7_Witness ==
  /\ sketch = "nicla"
  /\ ~backendConnected
  /\ out = <<Ev("backend", -1, "stop", <<>>)>>
  /\ \E i, j \in Slots : /\ Open(i)
                         /\ wallboxClients[j].active
                         /\ ~wallboxClients[j].wsHandshakeDone

\* "HSmrc0sMlYUkAGmm5OPpG2HaGWk=": base64(SHA-1(KeyOther + GUID))
AcceptOther ==
  <<72, 83, 109, 114, 99, 48, 115, 77, 108, 89, 85, 107, 65, 71, 109, 109, 53,
    79, 80, 112, 71, 50, 72, 97, 71, 87, 107, 61>>

\* base64(SHA-1(key + "258EAFA5-E914-47DA-95CA-C5AB0DC85B11")) of the two keys
AcceptOf(key) == IF key = KeySample THEN AcceptSample ELSE AcceptOther

\* C10: the response written to a session that sent the upgrade request
\* with key `key` carries Sec-WebSocket-Accept = AcceptOf(key).
C10_AcceptToken ==
  [][ \A i \in Slots : \A key \in Keys :
        (/\ sketch = "nicla"
         /\ wallboxClients[i].active /\ ~wallboxClients[i].wsHandshakeDone
         /\ wallboxSock[i].st = "up"
         /\ wallboxClients[i].buffer = <<>>
         /\ wallboxSock[i].rx = UpgradeRequest(key)
         /\ wallboxClients'[i].wsHandshakeDone)
          => out'[SetMin(WritesTo(out', i))].data
               = ResponseHead \o AcceptOf(key) \o CRLFCRLF ]_vars

(***************************************************************************)
(* Per-session proxies: properties                                         *)
(***************************************************************************)
\* client c is the session of slot i
Occupies(c, i) ==
  IF sketch = "atom"
    THEN sessions[i].active /\ sessions[i].wallboxId = c
    ELSE endpoints[i].active /\ endpoints[i].clientId = c

\* the backend client of slot i is connected
LinkConnected(i) ==
  IF sketch = "atom" THEN backendClients[i].connected ELSE endpoints[i].backend.connected

SlotActive(i) == IF sketch = "atom" THEN sessions[i].active ELSE endpoints[i].active

\* C5: every message a step writes goes where its sender belongs: a payload
\* of client c is written only to the link of the slot c occupies, and a
\* payload of link i only to the client that occupies slot i, whatever
\* sessions the slots held before.
C5_RoutingIsolation ==
  [][ \A k \in DOMAIN out' :
        out'[k].op = "sendTXT"
          => /\ out'[k].dst = "backend"
                  => \E c \in 0 .. MaxClient :
                       out'[k].data = WallboxTag(c) /\ Occupies(c, out'[k].slot)
             /\ out'[k].dst = "wallbox"
                  => \E i \in Slots :
                       out'[k].data = LinkTag(i) /\ Occupies(out'[k].slot, i) ]_vars

\* link 0, begun for an earlier session of slot 0, delivers to client 1,
\* the session of slot 0 now
C5_Witness ==
  /\ out = <<Ev("wallbox", 1, "sendTXT", LinkTag(0))>>
  /\ Occupies(1, 0)
  /\ 0 \notin serverClients
  /\ beginLog[0].resetBetween

\* C6: a slot without an active session has no connected backend link.
C6_LifetimeCoupling == \A i \in Slots : ~SlotActive(i) => ~LinkConnected(i)

\* C9: the latest two begin() calls of each slot's link are at least
\* BACKOFF_MS apart, whichever sessions made them.
C9_OneBeginPerInterval ==
  \A i \in Slots :
    beginLog[i].prev # -1 => beginLog[i].last - beginLog[i].prev >= BACKOFF_MS

\* C9 (amended): two begin() calls of a slot's link with no reset of the slot
\* between them are at least BACKOFF_MS apart.
C9_OneBeginPerSession ==
  \A i \in Slots :
    (beginLog[i].prev # -1 /\ ~beginLog[i].resetBetween)
      => beginLog[i].last - beginLog[i].prev >= BACKOFF_MS

\* one session of slot 0 has begun its link twice
C9_Witness ==
  /\ sketch = "atom"
  /\ sessions[0].active
  /\ beginLog[0].prev # -1
  /\ ~beginLog[0].resetBetween
  /\ ~beginLog[0].resetSince

(***************************************************************************)
(* Shared backend link: properties                                         *)
(***************************************************************************)
\* the gateway holds no connection to the backend
LinkDown ==
  CASE sketch = "nicla" -> ~backendConnected
    [] sketch = "ws2"   -> ~available(backendSock)
    [] OTHER            -> ~backendClient.connected

\* the call that keeps the shared link, as loop() makes it
KeepLink ==
  \/ handleBackend
  \/ \E ok \in BOOLEAN : connectBackendWs(ok)
  \/ EnsureBc

\* C8: two connects of the shared backend link are never initiated less than
\* BACKOFF_MS apart, and once a connect has been initiated, BACKOFF_MS have
\* passed since the latest one and the link is not connected, the call that
\* keeps the link cannot return without initiating a new one.
C8_BackoffGating ==
  /\ \A k \in 2 .. Len(connectLog) :
       connectLog[k].at - connectLog[k - 1].at >= BACKOFF_MS
  /\ (/\ connectLog # <<>>
      /\ LinkDown
      /\ now - connectLog[Len(connectLog)].at >= BACKOFF_MS)
       => ~ENABLED (KeepLink /\ connectLog' = connectLog)

\* a connect failed and the next one was initiated after the interval
C8_Witness ==
  /\ sketch = "nicla"
  /\ Len(connectLog) >= 2
  /\ ~connectLog[1].ok
  /\ connectLog[2].at - connectLog[1].at >= BACKOFF_MS


(***************************************************************************)
(* Manual-TCP gateway: peers that do not follow the protocol               *)
(***************************************************************************)
\* "GET / HTTP/1.1\r\n\r\n": a complete request without Sec-WebSocket-Key
RequestNoKey == SubSeq(RequestHead, 1, 14) \o CRLFCRLF

\* a complete request whose Sec-WebSocket-Key is empty
RequestEmptyKey == UpgradeRequest(<<>>)

\* a frame whose 7-bit length field is 127, followed by its 8 length bytes
Frame64(fin, opcode, key, payload) ==
  <<(IF fin THEN 128 ELSE 0) + opcode, (IF key = <<>> THEN 0 ELSE 128) + 127,
    0, 0, 0, 0, 0, 0, 0, Len(payload)>>
  \o SubSeq(PeerFrame(fin, opcode, key, payload), 3, 2 + Len(key) + Len(payload))

\* status code 1000 of a Close frame
CloseNormal == <<3, 232>>

TextHi == PeerFrame(TRUE, 1, MaskKey, PayloadHi)

TextOk == PeerFrame(TRUE, 1, MaskKey, PayloadOk)

\* what a wallbox may send before its handshake is answered
AnyWallboxRequests == {UpgradeRequest(KeySample), RequestNoKey, RequestEmptyKey}

\* what a wallbox may send once it is answered: Text, two Text frames in one
\* piece, an unmasked Text, Ping, Close, and a frame with a 64-bit length
AnyWallboxFrames ==
  { TextHi,
    TextHi \o TextOk,
    PeerFrame(TRUE, 1, <<>>, PayloadHi),
    PeerFrame(TRUE, 9, MaskKey, PayloadHi),
    PeerFrame(TRUE, 8, MaskKey, CloseNormal),
    Frame64(TRUE, 1, MaskKey, PayloadHi) }

AnyWallboxTurn(i) ==
  IF wallboxClients[i].wsHandshakeDone THEN AnyWallboxFrames ELSE AnyWallboxRequests

\* the backend's answers: 101 with the accept token of the key sent, 101
\* with another token, and 403
Response101Accept(token) == ResponseHead \o token \o CRLFCRLF

AnyBackendResponses ==
  {Response101Accept(AcceptSample), Response101Accept(SubSeq(AcceptSample, 2, 28) \o <<61>>),
   Response403}

AnyBackendFrames ==
  { PeerFrame(TRUE, 1, <<>>, PayloadOk),
    PeerFrame(TRUE, 9, <<>>, PayloadOk),
    PeerFrame(TRUE, 8, <<>>, CloseNormal),
    Frame64(TRUE, 1, <<>>, PayloadOk) }

AnyBackendTurn == IF backendWsHandshakeDone THEN AnyBackendFrames ELSE AnyBackendResponses

\* relaying with peers of every kind: up to MaxRelaySessions wallboxes and
\* one backend connection
NextFrames ==
  \/ WallboxConnects(MaxRelaySessions)
  \/ acceptWallboxConnections
  \/ \E i \in Slots : \E c \in AnyWallboxTurn(i) : WallboxSends(i, c)
  \/ \E i \in Slots : WallboxCloses(i)
  \/ handleWallboxClients
  \/ \E c \in AnyBackendTurn : BackendSends(c)
  \/ BackendCloses
  \/ handleBackend

SpecFrames == BootAt({"nicla"}, BACKOFF_MS) /\ [][NextFrames]_vars


(***************************************************************************)
(* Manual-TCP gateway: handshake and protocol errors                       *)
(***************************************************************************)
\* "Sec-WebSocket-Key: " and "Sec-WebSocket-Accept: "
KeyName == SubSeq(RequestHead, 17, 35)

AcceptName == SubSeq(ResponseHead, Len(ResponseHead) - 21, Len(ResponseHead))

\* the value of header `name` in an HTTP message, <<>> when it is absent
HeaderValue(msg, name) ==
  LET k == IndexOf(msg, name)
  IN  IF k < 0 THEN <<>>
      ELSE LET rest == Substring(msg, k + Len(name))
           IN  SubSeq(rest, 1, IndexOf(rest, <<13, 10>>))

\* the status code of an HTTP response: the three bytes after "HTTP/1.1 "
StatusOf(msg) == SubSeq(msg, 10, 12)

Str400 == <<52, 48, 48>>

\* a Sec-WebSocket-Key is 16 bytes in base64: 24 characters
WellFormedKey(key) == Len(key) = 24

\* the session of slot i was torn down by the step: entry free, transport closed
Evicted(i) == ~wallboxClients'[i].active /\ wallboxSock'[i].st = "none"

\* the step read the piece that waited on the transport of slot i
ReadsWallbox(i) == wallboxSock[i].st = "up" /\ wallboxSock[i].rx # <<>> /\ wallboxSock'[i].rx = <<>>

\* the step read the piece that waited on the backend's transport
ReadsBackend == backendSock.st = "up" /\ backendSock.rx # <<>> /\ backendSock'.rx = <<>>

\* C11: a step that reads a complete upgrade request without a well-formed
\* Sec-WebSocket-Key from a session writes one response to it, with status
\* 400, and tears the session down: it is not Open afterwards.
C11_BadKeyRejected ==
  [][ \A i \in Slots :
        (/\ sketch = "nicla"
         /\ wallboxClients[i].active /\ ~wallboxClients[i].wsHandshakeDone
         /\ wallboxClients[i].buffer = <<>>
         /\ wallboxSock[i].rx \in AnyWallboxRequests
         /\ ~WellFormedKey(HeaderValue(wallboxSock[i].rx, KeyName))
         /\ ReadsWallbox(i))
          => /\ Evicted(i)
             /\ ~Open(i)'
             /\ Cardinality(WritesTo(out', i)) = 1
             /\ \A k \in WritesTo(out', i) : StatusOf(out'[k].data) = Str400 ]_vars

\* C12: a step that reads the backend's complete answer to the upgrade
\* request leaves the link Open exactly when the status is 101 and
\* Sec-WebSocket-Accept is the token of the key sent; otherwise it closes the
\* transport, the link is down and lastBackendAttempt keeps the time of the
\* connect, so that the throttle holds the next one back.
C12_ClientHandshakeVerified ==
  [][ (/\ sketch = "nicla"
       /\ backendConnected /\ ~backendWsHandshakeDone
       /\ backendBuffer = <<>>
       /\ backendSock.rx \in AnyBackendResponses
       /\ ReadsBackend)
        => IF /\ StatusOf(backendSock.rx) = Str101
              /\ HeaderValue(backendSock.rx, AcceptName) = AcceptOf(KeySample)
             THEN backendConnected' /\ backendWsHandshakeDone'
             ELSE /\ ~backendConnected'
                  /\ backendSock'.st = "none"
                  /\ lastBackendAttempt' = lastBackendAttempt ]_vars

\* the 7-bit length field of a frame
Len7(frame) == frame[2] % 128

\* the MASK bit of a frame
MaskBit(frame) == frame[2] \div 128

\* C13: a step that reads a frame whose length field is 127 from an Open
\* session tears that session down, and one that reads it from the Open
\* backend link gives the link up and closes its transport.
C13_Length127IsError ==
  [][ /\ \A i \in Slots :
           (/\ sketch = "nicla"
            /\ Open(i)
            /\ wallboxClients[i].buffer = <<>>
            /\ wallboxSock[i].rx \in AnyWallboxFrames
            /\ Len7(wallboxSock[i].rx) = 127
            /\ ReadsWallbox(i))
             => Evicted(i)
      /\ (/\ sketch = "nicla"
          /\ backendConnected /\ backendWsHandshakeDone
          /\ backendBuffer = <<>>
          /\ backendSock.rx \in AnyBackendFrames
          /\ Len7(backendSock.rx) = 127
          /\ ReadsBackend)
           => ~backendConnected' /\ backendSock'.st = "none" ]_vars

\* C14: a step that reads a frame with the MASK bit clear from an Open
\* session tears that session down and writes nothing to the backend for it.
C14_UnmaskedIsError ==
  [][ \A i \in Slots :
        (/\ sketch = "nicla"
         /\ Open(i)
         /\ wallboxClients[i].buffer = <<>>
         /\ wallboxSock[i].rx \in AnyWallboxFrames
         /\ MaskBit(wallboxSock[i].rx) = 0
         /\ ReadsWallbox(i))
          => Evicted(i) /\ UplinkOf(out', i) = {} ]_vars


(***************************************************************************)
(* Manual-TCP gateway: peers that never complete what they send            *)
(***************************************************************************)
\* header lines a flooding peer sends after the start of a message
MaxFlood == 3

\* "X: xxx...x\r\n", 64 bytes
HeaderLine == <<88, 58, 32>> \o [k \in 1 .. 59 |-> 120] \o <<13, 10>>

\* "GET / HTTP/1.1\r\n" and "HTTP/1.1 101 OK\r\n": messages begun, not ended
PartialRequest == SubSeq(RequestHead, 1, 16)

PartialResponse == SubSeq(Response101, 1, 17)

\* the header of a Text frame that declares a payload of 65535 bytes
Oversized(key) == <<129, (IF key = <<>> THEN 0 ELSE 128) + 126, 255, 255>> \o key

\* a maximum for a receive buffer: room for the longest complete handshake
\* message and MaxFlood header lines more
RxBufferMax == Len(Response101Accept(AcceptSample)) + MaxFlood * Len(HeaderLine)

\* the wallbox of slot i sends more bytes while the gateway still holds the
\* earlier ones, unfinished, in its buffer
WallboxSendsMore(i, chunk) ==
  /\ OnNicla
  /\ wallboxSock[i].st = "up"
  /\ wallboxSock[i].rx = <<>>
  /\ wallboxClients[i].buffer # <<>>
  /\ Len(wallboxClients[i].buffer) <= RxBufferMax
  /\ wallboxSock' = [wallboxSock EXCEPT ![i].rx = chunk]
  /\ out' = <<>>
  /\ UNCHANGED <<wallboxClients, pendingWallbox, backendConnected, backendWsHandshakeDone,
                 backendBuffer, lastBackendAttempt, backendSock, now, connectLog>>

\* the backend does the same
BackendSendsMore(chunk) ==
  /\ OnNicla
  /\ backendSock.st = "up"
  /\ backendSock.rx = <<>>
  /\ backendBuffer # <<>>
  /\ Len(backendBuffer) <= RxBufferMax
  /\ backendSock' = [backendSock EXCEPT !.rx = chunk]
  /\ out' = <<>>
  /\ UNCHANGED <<wallboxClients, wallboxSock, pendingWallbox, backendConnected,
                 backendWsHandshakeDone, backendBuffer, lastBackendAttempt, now,
                 connectLog>>

FloodWallboxTurn(i) ==
  IF wallboxClients[i].wsHandshakeDone
    THEN {TextHi, Oversized(MaskKey)}
    ELSE {UpgradeRequest(KeySample), PartialRequest}

FloodBackendTurn ==
  IF backendWsHandshakeDone
    THEN {PeerFrame(TRUE, 1, <<>>, PayloadOk), Oversized(<<>>)}
    ELSE {Response101, PartialResponse}

\* one wallbox and the backend, each free to begin a message and never end it
NextFlood ==
  \/ WallboxConnects(1)
  \/ acceptWallboxConnections
  \/ \E c \in FloodWallboxTurn(0) : WallboxSends(0, c)
  \/ WallboxSendsMore(0, HeaderLine)
  \/ WallboxCloses(0)
  \/ handleWallboxClients
  \/ \E c \in FloodBackendTurn : BackendSends(c)
  \/ BackendSendsMore(HeaderLine)
  \/ handleBackend

SpecFlood == BootAt({"nicla"}, BACKOFF_MS) /\ [][NextFlood]_vars

\* C15: no receive buffer, of a session or of the backend link, is ever
\* longer than the maximum, whatever the peers send: a peer whose bytes
\* would exceed it is evicted or failed before the buffer holds them.
C15_BoundedBuffers ==
  /\ \A i \in Slots : Len(wallboxClients[i].buffer) <= RxBufferMax
  /\ Len(backendBuffer) <= RxBufferMax


(***************************************************************************)
(* Manual-TCP gateway: control frames and masking                          *)
(***************************************************************************)
\* `data` is one frame with FIN set, the opcode and the payload given,
\* masked or not
Carries(data, opcode, p) ==
  \E key \in {<<>>, MaskKey} : data = PeerFrame(TRUE, opcode, key, p)

\* the writes of bytes a step makes to the backend's transport
BackendWrites(log) ==
  {k \in DOMAIN log : log[k].dst = "backend" /\ log[k].op \in WriteOps}

\* C16: a step that reads a Ping frame with payload p from an Open session
\* writes exactly one frame to that session, a Pong with payload p; a step
\* that reads a Ping from the Open backend link writes exactly one frame to
\* the backend, a Pong with the same payload.
C16_PingAnswered ==
  [][ \A p \in {PayloadHi, PayloadOk} :
        /\ \A i \in Slots :
             (/\ sketch = "nicla"
              /\ Open(i)
              /\ wallboxClients[i].buffer = <<>>
              /\ wallboxSock[i].rx = PeerFrame(TRUE, 9, MaskKey, p)
              /\ ReadsWallbox(i))
               => /\ Cardinality(WritesTo(out', i)) = 1
                  /\ \A k \in WritesTo(out', i) : Carries(out'[k].data, 10, p)
        /\ (/\ sketch = "nicla"
            /\ backendConnected /\ backendWsHandshakeDone
            /\ backendBuffer = <<>>
            /\ backendSock.rx = PeerFrame(TRUE, 9, <<>>, p)
            /\ ReadsBackend)
             => /\ Cardinality(BackendWrites(out')) = 1
                /\ \A k \in BackendWrites(out') : Carries(out'[k].data, 10, p) ]_vars

\* C17: a step that reads a Close frame from an Open session tears the
\* session down, writing at most the echoed Close to it, and a step that
\* reads a Close frame from the Open backend link gives the link up and
\* closes its transport; a connection torn down is written to no more.
C17_CloseTearsDown ==
  [][ /\ \A i \in Slots :
           (/\ sketch = "nicla"
            /\ Open(i)
            /\ wallboxClients[i].buffer = <<>>
            /\ wallboxSock[i].rx = PeerFrame(TRUE, 8, MaskKey, CloseNormal)
            /\ ReadsWallbox(i))
             => /\ Evicted(i)
                /\ \A k \in WritesTo(out', i) : Carries(out'[k].data, 8, CloseNormal)
      /\ (/\ sketch = "nicla"
          /\ backendConnected /\ backendWsHandshakeDone
          /\ backendBuffer = <<>>
          /\ backendSock.rx = PeerFrame(TRUE, 8, <<>>, CloseNormal)
          /\ ReadsBackend)
           => ~backendConnected' /\ backendSock'.st = "none" ]_vars

\* C18: every frame a step writes to the backend on behalf of a session has
\* the MASK bit set and room for the 4-byte key after its header, and every
\* frame a step writes to a session that is Open has the MASK bit clear.
C18_MaskPerRole ==
  [][ \A k \in DOMAIN out' :
        (sketch = "nicla" /\ out'[k].op \in WriteOps)
          => /\ (out'[k].dst = "backend" /\ out'[k].slot \in Slots)
                  => MaskBit(out'[k].data) = 1 /\ Len(out'[k].data) >= 6
             /\ (out'[k].dst = "wallbox" /\ Open(out'[k].slot))
                  => MaskBit(out'[k].data) = 0 ]_vars


(***************************************************************************)
(* Manual-TCP gateway: the frame codec on its own                          *)
(***************************************************************************)
\* the longest payload the 16-bit length form holds
MaxPayload == 65535

\* payload lengths: both ends of 0..125 and of 126..65535, and some between
CodecLengths == {0, 1, 2, 125, 126, 127, 300, MaxPayload}

\* a String of n bytes b
Fill(n, b) == <<>> \o [k \in 1 .. n |-> b]

CodecPayloads == {Fill(n, 65) : n \in CodecLengths} \cup {Fill(n, 200) : n \in {1, 2, 126}}

\* a Text frame with FIN set as a client puts it on the wire, with the MASK
\* bit set and the 16-bit length form where the payload needs it
MaskedFrame(key, payload) ==
  LET len == Len(payload)
  IN  (IF len < 126 THEN <<129, 128 + len>>
                    ELSE <<129, 128 + 126, (len \div 256) % 256, len % 256>>)
      \o key
      \o [k \in 1 .. len |-> Xor(payload[k], key[((k - 1) % 4) + 1])]

\* the mask key of the longest frame
ZeroKey == <<0, 0, 0, 0>>

\* every payload with its two encodings: by encodeWebSocketFrame(), MASK
\* bit clear, and by a masking client
CodecFrames ==
  {[payload |-> p, wire |-> encodeWebSocketFrame(p)] : p \in CodecPayloads}
    \cup {[payload |-> p,
           wire |-> MaskedFrame(IF Len(p) = MaxPayload THEN ZeroKey ELSE MaskKey, p)] :
             p \in CodecPayloads}

\* a second frame is appended to a buffer that holds one frame of at most
\* MaxQueued bytes
MaxQueued == 310

\* an encoded frame is appended to a buffer that is empty or holds one frame
EncodeFrame(wire) ==
  /\ OnNicla
  /\ \/ backendBuffer = <<>>
     \/ /\ Len(backendBuffer) <= MaxQueued
        /\ \E c \in CodecFrames : backendBuffer = c.wire
  /\ backendBuffer' = backendBuffer \o wire
  /\ out' = <<>>
  /\ UNCHANGED <<wallboxClients, wallboxSock, pendingWallbox, backendConnected,
                 backendWsHandshakeDone, lastBackendAttempt, backendSock, now,
                 connectLog>>

\* decodeWebSocketFrame(buffer) as its callers use it (lines 539-540 and
\* 632-633): a returned String of length > 0 is a message, any other nothing
DecodeFrame ==
  /\ OnNicla
  /\ backendBuffer # <<>>
  /\ LET d == decodeWebSocketFrame(backendBuffer)
     IN  /\ backendBuffer' = d.buffer
         /\ out' = <<Ev("codec", -1, IF Len(d.message) > 0 THEN "message" ELSE "nothing",
                        d.message)>>
  /\ UNCHANGED <<wallboxClients, wallboxSock, pendingWallbox, backendConnected,
                 backendWsHandshakeDone, lastBackendAttempt, backendSock, now,
                 connectLog>>

NextCodec ==
  \/ \E c \in CodecFrames : EncodeFrame(c.wire)
  \/ DecodeFrame

SpecCodec == BootAt({"nicla"}, 0) /\ [][NextCodec]_vars

\* C19: decoding a buffer that begins with the encoding of a Text frame with
\* payload p, MASK bit set or clear, payload length 0..65535, reports a
\* message, the message is p, and the buffer is left with exactly the bytes
\* that followed the frame; so also when p is empty.
C19_RoundTrip ==
  [][ \A c \in CodecFrames :
        (/\ out' # <<>>
         /\ out'[1].dst = "codec"
         /\ Len(backendBuffer) >= Len(c.wire)
         /\ SubSeq(backendBuffer, 1, Len(c.wire)) = c.wire)
          => /\ out' = <<Ev("codec", -1, "message", c.payload)>>
             /\ backendBuffer' = Substring(backendBuffer, Len(c.wire)) ]_vars


(***************************************************************************)
(* Manual-TCP gateway: order of the frames of one session                  *)
(***************************************************************************)
\* the first bytes of a frame, sent ahead of the rest
Begun(frame) == SubSeq(frame, 1, 3)

Rest(frame) == SubSeq(frame, 4, Len(frame))

\* an Open wallbox sends a stream of Text frames, cut into pieces anywhere:
\* a frame, two frames at once, or the beginning of a frame
FifoPieces == {TextHi, TextHi \o TextOk, TextOk \o TextHi, Begun(TextOk)}

FifoWallboxTurn(i) ==
  IF wallboxClients[i].wsHandshakeDone THEN FifoPieces ELSE {UpgradeRequest(KeySample)}

\* the pieces that continue the stream while the gateway still holds an
\* unfinished frame, or a frame it has not processed yet
FifoMore(i) ==
  IF wallboxClients[i].buffer = Begun(TextOk) THEN {Rest(TextOk), Rest(TextOk) \o TextHi}
  ELSE IF wallboxClients[i].buffer \in {TextHi, TextOk} THEN {TextHi, TextOk}
  ELSE {}

\* the backend answers the upgrade request and sends Text frames
FifoBackendTurn ==
  IF backendWsHandshakeDone THEN {PeerFrame(TRUE, 1, <<>>, PayloadOk)} ELSE {Response101}

\* relaying streams of frames: up to MaxRelaySessions wallboxes and the backend
NextFifo ==
  \/ WallboxConnects(MaxRelaySessions)
  \/ acceptWallboxConnections
  \/ \E i \in Slots : \E c \in FifoWallboxTurn(i) : WallboxSends(i, c)
  \/ \E i \in Slots : \E c \in FifoMore(i) : WallboxSendsMore(i, c)
  \/ handleWallboxClients
  \/ \E c \in FifoBackendTurn : BackendSends(c)
  \/ handleBackend

SpecFifo == BootAt({"nicla"}, BACKOFF_MS) /\ [][NextFifo]_vars

\* the bytes received from the session of slot i and not processed yet, in
\* the order of their receipt: those buffered, then those not read yet
PendingOf(i) == wallboxClients[i].buffer \o wallboxSock[i].rx

IsPrefix(s, t) == Len(s) <= Len(t) /\ SubSeq(t, 1, Len(s)) = s

IsSuffix(s, t) == Len(s) <= Len(t) /\ SubSeq(t, Len(t) - Len(s) + 1, Len(t)) = s

\* C20: the bytes of an Open session wait in one queue: a step only adds
\* bytes at its end or takes bytes from its front; a step writes at most one
\* frame to the backend for the session, that frame carries the payload of
\* the Text frame at the front of the queue, and exactly that frame leaves
\* the queue; nothing is written to the backend for a slot that is not Open.
\* So what is forwarded for a session is what it sent, in the order of
\* receipt, each frame once.
C20_SessionFifo ==
  [][ \A i \in Slots :
        sketch = "nicla" =>
          /\ Cardinality(UplinkOf(out', i)) <= (IF Open(i) THEN 1 ELSE 0)
          /\ \A k \in UplinkOf(out', i) :
               \E p \in {PayloadHi, PayloadOk} :
                 LET f == PeerFrame(TRUE, 1, MaskKey, p)
                 IN  /\ IsPrefix(f, PendingOf(i))
                     /\ CarriesText(out'[k].data, p)
                     /\ wallboxClients'[i].buffer
                          = SubSeq(PendingOf(i), Len(f) + 1, Len(PendingOf(i)))
          /\ (Open(i) /\ Open(i)')
               => \/ IsPrefix(PendingOf(i), PendingOf(i)')
                  \/ IsSuffix(PendingOf(i)', PendingOf(i)) ]_vars

\* one pass forwarded the first frame of two sessions, each holding its
\* second frame: "ok" then "hi" pending in slot 0, "hi" then "ok" in slot 1
C20_Witness ==
  /\ out = <<Ev("backend", 0, "print", encodeWebSocketFrame(PayloadOk)),
             Ev("backend", 1, "print", encodeWebSocketFrame(PayloadHi))>>
  /\ wallboxClients[0].buffer = TextHi
  /\ wallboxClients[1].buffer = TextOk


(***************************************************************************)
(* Payloads that arrive while the backend link is not Open                 *)
(***************************************************************************)
\* relaying at the manual-TCP gateway, the per-session proxy and the
\* broadcast proxy, the backend link coming and going
NextDrop ==
  \/ WallboxConnects(MaxRelaySessions)
  \/ acceptWallboxConnections
  \/ \E i \in Slots : \E c \in WallboxTurn(i) : WallboxSends(i, c)
  \/ \E i \in Slots : WallboxCloses(i)
  \/ handleWallboxClients
  \/ \E c \in BackendTurn : BackendSends(c)
  \/ BackendCloses
  \/ handleBackend
  \/ \E c \in 0 .. MaxClient : WallboxConnected(c)
  \/ \E c \in 0 .. MaxClient : WallboxDisconnected(c)
  \/ \E c \in 0 .. MaxClient : WallboxText(c, WallboxTag(c))
  \/ EnsureAll
  \/ \E i \in Slots : BackendLoop(i)
  \/ \E i \in Slots : BackendText(i, LinkTag(i))
  \/ EnsureBc
  \/ \E c \in 0 .. MaxClient : WallboxConnectedBc(c)
  \/ \E c \in 0 .. MaxClient : WallboxDisconnectedBc(c)
  \/ \E c \in 0 .. MaxClient : WallboxTextBc(c, WallboxTag(c))
  \/ BackendLoopBc
  \/ \E m \in Messages : BackendTextBc(MaxClient, m)

SpecDrop == BootAt({"nicla", "atom", "abc"}, BACKOFF_MS) /\ [][NextDrop]_vars

\* the messages a step hands to a backend client of the WebSockets library
SendsToBackend(log) ==
  {k \in DOMAIN log : log[k].dst = "backend" /\ log[k].op = "sendTXT"}

NextIdle ==
  \/ WallboxConnects(MaxRelaySessions)
  \/ acceptWallboxConnections
  \/ \E i \in Slots : \E c \in WallboxTurn(i) : WallboxSends(i, c)
  \/ \E i \in Slots : WallboxCloses(i)
  \/ handleWallboxClients
  \/ Tick

\* loop() runs for ever and millis() advances
SpecIdle ==
  /\ BootAt({"nicla"}, 0)
  /\ [][NextIdle]_vars
  /\ WF_vars(Tick)
  /\ WF_vars(acceptWallboxConnections)
  /\ WF_vars(handleWallboxClients)

\* a silence of two steps of the clock
IdleLimit == 2 * TimeStep

\* C22: a session from which nothing was read for the idle duration, its
\* handshake completed or not, is eventually evicted and its slot freed,
\* even though its transport stays connected.
C22_IdleEviction ==
  \A i \in 0 .. MaxRelaySessions - 1 :
    (wallboxClients[i].active /\ now - wallboxClients[i].lastActivity >= IdleLimit)
      ~> ~wallboxClients[i].active


(***************************************************************************)
(* A new backend target is saved                                           *)
(***************************************************************************)
\* the backend targets the dashboard is given
Hosts == {0, 1}

\* handleHttpClient() of the manual-TCP gateway, POST /save with an ssid:
\* the configuration is written and NVIC_SystemReset() restarts the sketch
handleHttpClient(host) ==
  /\ sketch = "nicla"
  /\ backendHost' = host
  /\ wallboxClients' = [i \in Slots |-> IdleWallbox]
  /\ wallboxSock' = [i \in Slots |-> NoSock]
  /\ pendingWallbox' = FALSE
  /\ backendConnected' = FALSE
  /\ backendWsHandshakeDone' = FALSE
  /\ backendBuffer' = <<>>
  /\ lastBackendAttempt' = 0
  /\ backendSock' = NoSock
  /\ connectLog' = <<>>
  /\ now' = 0
  /\ out' = <<Ev("http", -1, "println", <<>>)>>
  /\ UNCHANGED <<sketch, serverClients, configValid, wallboxActive, backendClient,
                 sessions, backendClients, beginLog, endpoints>>

\* handleSave() of the per-session proxy (atom_s3_ocpp_proxy.ino), the
\* request carrying an ssid: config is rewritten, saved, and connectWiFi()
\* called; `valid` is strlen(config.ssid) > 0
handleSave(host, valid) ==
  /\ sketch = "atom"
  /\ backendHost' = host
  /\ configValid' = valid
  /\ out' = <<Ev("http", -1, "send", <<>>)>>
  /\ UNCHANGED <<sketch, now, nvars, serverClients, wallboxActive, backendClient,
                 sessions, backendClients, beginLog, endpoints>>

\* handleSave() of the touch proxy
TouchHandleSave(host) ==
  /\ sketch = "touch"
  /\ backendHost' = host
  /\ configValid' = TRUE
  /\ out' = <<Ev("http", -1, "send", <<>>)>>
  /\ UNCHANGED <<sketch, now, nvars, serverClients, wallboxActive, backendClient,
                 sessions, backendClients, beginLog, endpoints>>

NextSave ==
  \/ \E c \in BackendTurn : BackendSends(c)
  \/ BackendCloses
  \/ handleBackend
  \/ \E h \in Hosts : handleHttpClient(h)
  \/ \E c \in 0 .. MaxClient : WallboxConnected(c)
  \/ \E c \in 0 .. MaxClient : WallboxDisconnected(c)
  \/ EnsureAll
  \/ \E i \in Slots : BackendLoop(i)
  \/ \E h \in Hosts, v \in BOOLEAN : handleSave(h, v)
  \/ \E c \in 0 .. MaxClient : TouchWallboxConnected(c)
  \/ \E c \in 0 .. MaxClient : TouchWallboxDisconnected(c)
  \/ \E i \in Slots : TouchBackendLoop(i)
  \/ \E h \in Hosts : TouchHandleSave(h)
  \/ sketch = "nicla" /\ Tick

\* loop() runs for ever; millis() restarts with the manual-TCP gateway and
\* advances
SpecSave ==
  /\ BootAt({"nicla", "atom", "touch"}, BACKOFF_MS)
  /\ [][NextSave]_vars
  /\ WF_vars(sketch = "nicla" /\ Tick)
  /\ WF_vars(handleBackend)
  /\ WF_vars(EnsureAll)

\* backend link i is connected to a target that is not the configured one
StaleLink(i) ==
  \/ /\ sketch = "nicla"
     /\ i = 0
     /\ backendConnected
     /\ connectLog # <<>>
     /\ connectLog[Len(connectLog)].host # backendHost
  \/ /\ sketch = "atom"
     /\ backendClients[i].connected
     /\ backendClients[i].host # backendHost
  \/ /\ sketch = "touch"
     /\ endpoints[i].backend.connected
     /\ endpoints[i].backend.host # backendHost

\* C23: once a new backend target is saved, a backend link that is connected
\* to the previous target does not stay so: it is eventually torn down or
\* connected to the new target.
C23_Retargeted ==
  \A i \in 0 .. MaxClient : StaleLink(i) ~> ~StaleLink(i)


(***************************************************************************)
(* A session whose backend link fails                                      *)
(***************************************************************************)
\* C24: under per-session pairing, a step in which the connected backend
\* link of an active session is lost leaves that session evicted: the slot
\* is free and the client that occupied it is no longer connected.
C24_LinkLossEvicts ==
  [][ \A i \in Slots :
        (SlotActive(i) /\ LinkConnected(i) /\ ~LinkConnected(i)')
          => /\ ~SlotActive(i)'
             /\ \A c \in 0 .. MaxClient : Occupies(c, i) => c \notin serverClients' ]_vars


(***************************************************************************)
(* What the failure of one session does to the others                      *)
(***************************************************************************)
\* the broadcast gateways and the per-session proxies side by side
NextLocal == NextRelay \/ NextPair

SpecLocal ==
  BootAt({"nicla", "ws2", "atom", "touch"}, BACKOFF_MS) /\ [][NextLocal]_vars

\* the session of slot i ends in this step
SessionEnds(i) ==
  IF sketch = "nicla" THEN wallboxClients[i].active /\ ~wallboxClients'[i].active
  ELSE IF sketch \in {"atom", "touch"} THEN SlotActive(i) /\ ~SlotActive(i)'
  ELSE FALSE

\* nothing of slot j waits to be handled: the slot is free, or its transport
\* is connected with nothing unread
Quiet(j) ==
  sketch = "nicla"
    => \/ ~wallboxClients[j].active
       \/ wallboxSock[j].st = "up" /\ wallboxSock[j].rx = <<>>

\* C25: a step in which the session of slot i ends (its transport is found
\* disconnected, or the server closes it) changes nothing of any other slot
\* j: its entry (active flag, handshake state, buffer, client number), its
\* transport and its backend link are as before; the shared backend link of
\* the manual-TCP gateway is as before too.
C25_ErrorLocality ==
  [][ \A i \in Slots :
        SessionEnds(i)
          => /\ \A j \in Slots \ {i} :
                  Quiet(j)
                    => /\ wallboxClients'[j] = wallboxClients[j]
                       /\ wallboxSock'[j] = wallboxSock[j]
                       /\ sessions'[j] = sessions[j]
                       /\ backendClients'[j] = backendClients[j]
                       /\ endpoints'[j] = endpoints[j]
             /\ backendConnected' = backendConnected
             /\ backendWsHandshakeDone' = backendWsHandshakeDone
             /\ backendBuffer' = backendBuffer ]_vars

\* the session of slot 0 was just evicted while that of slot 1 is Open
C25_Witness ==
  /\ sketch = "nicla"
  /\ out = <<Ev("wallbox", 0, "stop", <<>>)>>
  /\ ~wallboxClients[0].active
  /\ Open(1)


(***************************************************************************)
(* Binary frames                                                           *)
(***************************************************************************)
\* a Binary frame of a wallbox and one of the backend
BinaryHi == PeerFrame(TRUE, 2, MaskKey, PayloadHi)

BinaryOk == PeerFrame(TRUE, 2, <<>>, PayloadOk)

\* wallboxEvent(client, WStype_BIN) of the per-session proxy: the switch has
\* no case for it
wallboxBin(st, client, msg) == st

\* handleBackendMessage(slot, WStype_BIN, payload, length)
handleBackendBin(st, slot, msg) == st

\* handleWallboxEvent(clientId, WStype_BIN) of the touch proxy
endpointBin(st, clientId, msg) ==
  LET slot == findEndpointIndex(st.E, clientId)
  IN  IF slot >= 0 /\ st.E[slot].backend.connected
        THEN [st EXCEPT !.out = Append(@, Ev("backend", slot, "sendBIN", msg))]
        ELSE st

\* handleBackendEvent(idx, WStype_BIN, payload, length)
handleBackendEventBin(st, idx, msg) ==
  IF ~st.E[idx].active THEN st
  ELSE [st EXCEPT !.out = Append(@, Ev("wallbox", st.E[idx].clientId, "sendBIN", msg))]

WallboxBin(c, msg) ==
  /\ OnAtom
  /\ c \in serverClients
  /\ Commit(wallboxBin(Step, c, msg))

BackendBin(i, msg) ==
  /\ OnAtom
  /\ backendClients[i].connected
  /\ Commit(handleBackendBin(Step, i, msg))

TouchWallboxBin(c, msg) ==
  /\ OnTouch
  /\ c \in serverClients
  /\ TouchCommit(endpointBin(TouchStep, c, msg))

TouchBackendBin(i, msg) ==
  /\ OnTouch
  /\ endpoints[i].active
  /\ endpoints[i].backend.connected
  /\ TouchCommit(handleBackendEventBin(TouchStep, i, msg))

\* what the peers send once their handshakes are done: Text and Binary
BinaryWallboxTurn(i) ==
  IF wallboxClients[i].wsHandshakeDone THEN {TextHi, BinaryHi} ELSE WallboxRequests

BinaryBackendTurn ==
  IF backendWsHandshakeDone THEN {PeerFrame(TRUE, 1, <<>>, PayloadOk), BinaryOk}
  ELSE {Response101}

NextBinary ==
  \/ WallboxConnects(MaxRelaySessions)
  \/ acceptWallboxConnections
  \/ \E i \in Slots : \E c \in BinaryWallboxTurn(i) : WallboxSends(i, c)
  \/ handleWallboxClients
  \/ \E c \in BinaryBackendTurn : BackendSends(c)
  \/ handleBackend
  \/ \E c \in 0 .. MaxClient : WallboxConnected(c)
  \/ \E c \in 0 .. MaxClient : WallboxBin(c, WallboxTag(c))
  \/ \E i \in Slots : BackendLoop(i)
  \/ \E i \in Slots : BackendBin(i, LinkTag(i))
  \/ \E c \in 0 .. MaxClient : TouchWallboxConnected(c)
  \/ \E c \in 0 .. MaxClient : TouchWallboxBin(c, WallboxTag(c))
  \/ \E i \in Slots : TouchBackendLoop(i)
  \/ \E i \in Slots : TouchBackendBin(i, LinkTag(i))

SpecBinary == BootAt({"nicla", "atom", "touch"}, BACKOFF_MS) /\ [][NextBinary]_vars

\* the Binary messages a step hands to the WebSockets library
SendsBin(log, dst, slot, msg) ==
  {k \in DOMAIN log : log[k] = Ev(dst, slot, "sendBIN", msg)}

\* C26 (manual-TCP gateway): a step that reads one complete Binary frame with
\* FIN set from an Open session, the backend link being Open, writes a Binary
\* frame with that payload to the backend for that session; a step that reads
\* a Binary frame from the Open backend link writes a Binary frame with that
\* payload to every Open session.
\* (per-session and touch proxy): a Binary message of a client whose backend
\* client is connected is sent to that backend client, and a Binary message
\* of a backend client is sent to the client of its slot.
C26_BinaryRelayed ==
  [][ /\ \A i \in Slots :
           (/\ sketch = "nicla"
            /\ Open(i)
            /\ wallboxClients[i].buffer = <<>>
            /\ wallboxSock[i].rx = BinaryHi
            /\ ReadsWallbox(i)
            /\ backendConnected /\ backendWsHandshakeDone)
             => \E k \in UplinkOf(out', i) : Carries(out'[k].data, 2, PayloadHi)
      /\ (/\ sketch = "nicla"
          /\ backendConnected /\ backendWsHandshakeDone
          /\ backendBuffer = <<>>
          /\ backendSock.rx = BinaryOk
          /\ ReadsBackend)
           => \A i \in Slots :
                Open(i) => \E k \in WritesTo(out', i) : Carries(out'[k].data, 2, PayloadOk)
      /\ \A c \in 0 .. MaxClient, i \in Slots :
           (Occupies(c, i) /\ LinkConnected(i))
             => /\ (WallboxBin(c, WallboxTag(c)) \/ TouchWallboxBin(c, WallboxTag(c)))
                     => SendsBin(out', "backend", i, WallboxTag(c)) # {}
                /\ (BackendBin(i, LinkTag(i)) \/ TouchBackendBin(i, LinkTag(i)))
                     => SendsBin(out', "wallbox", c, LinkTag(i)) # {} ]_vars


(***************************************************************************)
(* The backend link is retried for as long as the gateway runs             *)
(***************************************************************************)
\* the manual-TCP gateway from power-up, with one wallbox that connects,
\* asks for the upgrade and closes, a backend that accepts or refuses,
\* answers 101 or 403, or closes, and the clock
NextRetry ==
  \/ WallboxConnects(1)
  \/ acceptWallboxConnections
  \/ ~wallboxClients[0].wsHandshakeDone /\ WallboxSends(0, UpgradeRequest(KeySample))
  \/ WallboxCloses(0)
  \/ handleWallboxClients
  \/ \E c \in BackendResponses : ~backendWsHandshakeDone /\ BackendSends(c)
  \/ BackendCloses
  \/ handleBackend
  \/ Tick

\* loop() runs for ever and millis() advances
SpecRetry ==
  /\ BootAt({"nicla"}, 0)
  /\ [][NextRetry]_vars
  /\ WF_vars(Tick)
  /\ WF_vars(handleWallboxClients)
  /\ WF_vars(handleBackend)

\* the step before this state called backendClient.connect()
ConnectTried == \E k \in DOMAIN out : out[k] = Ev("backend", -1, "connect", <<>>)

\* C27: whenever the backend link is not connected and the clock of the
\* model has a throttle interval left to run, backendClient.connect() is
\* eventually called again, whatever the sessions and the earlier attempts
\* were; and whenever the backend has accepted the connection and its 101
\* answer waits to be read, the link eventually becomes Open unless the
\* backend closes the connection first.
C27_KeepsRetrying ==
  /\ (~backendConnected /\ now + BACKOFF_MS <= MaxTime) ~> ConnectTried
  /\ (/\ backendConnected
      /\ ~backendWsHandshakeDone
      /\ backendSock.st = "up"
      /\ backendSock.rx = Response101)
       ~> (backendConnected /\ backendWsHandshakeDone) \/ backendSock.st # "up"

\* a refused connect was followed by one that was accepted and answered, with
\* a session Open
C27_Witness ==
  /\ Len(connectLog) >= 2
  /\ ~connectLog[1].ok
  /\ connectLog[Len(connectLog)].ok
  /\ backendConnected /\ backendWsHandshakeDone
  /\ Open(0)


(***************************************************************************)
(* How many wallboxes the manual-TCP gateway serves at once                *)
(***************************************************************************)
\* "bis zu 10 gleichzeitige WebSocket-Verbindungen" (README.md)
DocumentedClients == 10

ActiveCount == Cardinality({i \in Slots : wallboxClients[i].active})

\* a connection taken from the accept queue while fewer than n entries are
\* active gets an entry, and is closed with nothing changed otherwise
AdmitsUpTo(n) ==
  (sketch = "nicla" /\ pendingWallbox /\ ~pendingWallbox')
    => IF ActiveCount < n
         THEN \E i \in Slots : /\ ~wallboxClients[i].active
                               /\ wallboxClients'[i].active
                               /\ wallboxSock'[i] = FreshSock
                               /\ out' = <<Ev("wallbox", i, "accept", <<>>)>>
         ELSE /\ out' = Rejection
              /\ wallboxClients' = wallboxClients

C29_LowestFreeSlot ==
  [][ /\ \A j \in Slots :
           (/\ sketch = "nicla"
            /\ pendingWallbox /\ ~pendingWallbox'
            /\ ~wallboxClients[j].active /\ wallboxClients'[j].active)
             => /\ \A k \in 0 .. j - 1 : wallboxClients[k].active
                /\ \A i \in Slots \ {j} : /\ wallboxClients'[i] = wallboxClients[i]
                                          /\ wallboxSock'[i] = wallboxSock[i]
      /\ \A c \in 0 .. MaxClient, j \in Slots :
           sketch \in {"atom", "touch"}
             => /\ (~Occupies(c, j) /\ Occupies(c, j)')
                     => \A k \in 0 .. j - 1 : SlotActive(k)
                /\ (Occupies(c, j) /\ c \in serverClients') => Occupies(c, j)' ]_vars

\* entry 0, freed by an earlier session, was just given to a new connection
\* while the session of entry 1 goes on
C29_Witness ==
  /\ sketch = "nicla"
  /\ out = <<Ev("wallbox", 0, "accept", <<>>)>>
  /\ wallboxClients[1].active


(***************************************************************************)
(* A frame that arrives one byte at a time                                 *)
(***************************************************************************)
\* masked Text frames with FIN set, with their payloads: two bytes, none,
\* and 126 bytes, which takes the 16-bit length
PrefixFrames ==
  { [payload |-> PayloadHi, wire |-> TextHi],
    [payload |-> <<>>, wire |-> MaskedFrame(MaskKey, <<>>)],
    [payload |-> Fill(126, 65), wire |-> MaskedFrame(MaskKey, Fill(126, 65))] }

\* the wallbox of slot i, its upgrade answered, sends the next byte of a
\* frame; the previous byte has been read
FeedByte(i) ==
  /\ OnNicla
  /\ wallboxSock[i].st = "up"
  /\ wallboxSock[i].rx = <<>>
  /\ wallboxClients[i].wsHandshakeDone
  /\ \E f \in PrefixFrames :
       /\ IsPrefix(wallboxClients[i].buffer, f.wire)
       /\ Len(wallboxClients[i].buffer) < Len(f.wire)
       /\ wallboxSock' = [wallboxSock EXCEPT
                            ![i].rx = <<f.wire[Len(wallboxClients[i].buffer) + 1]>>]
  /\ out' = <<>>
  /\ UNCHANGED <<wallboxClients, pendingWallbox, backendConnected, backendWsHandshakeDone,
                 backendBuffer, lastBackendAttempt, backendSock, now, connectLog>>

NextPrefix ==
  \/ WallboxConnects(1)
  \/ acceptWallboxConnections
  \/ ~wallboxClients[0].wsHandshakeDone /\ WallboxSends(0, UpgradeRequest(KeySample))
  \/ FeedByte(0)
  \/ handleWallboxClients
  \/ ~backendWsHandshakeDone /\ BackendSends(Response101)
  \/ handleBackend

SpecPrefix == BootAt({"nicla"}, BACKOFF_MS) /\ [][NextPrefix]_vars

\* a Text frame with FIN set and the MASK bit clear
PlainFrame(payload) ==
  LET len == Len(payload)
  IN  (IF len < 126 THEN <<129, len>>
                    ELSE <<129, 126, (len \div 256) % 256, len % 256>>)
      \o payload

\* C30: a step of handleWallboxClients() that reads one byte from an Open
\* session, after which the bytes received are a proper prefix of a valid
\* Text frame, writes nothing to any transport, keeps the session Open and
\* keeps exactly the bytes received in its buffer; the step that reads the
\* last byte of the frame, the backend link being Open, writes one frame
\* carrying the payload to the backend and leaves the buffer empty.
C30_IncompleteNoEffect ==
  [][ \A f \in PrefixFrames :
        (/\ Open(0)
         /\ ReadsWallbox(0)
         /\ IsPrefix(PendingOf(0), f.wire))
          => IF Len(PendingOf(0)) < Len(f.wire)
               THEN /\ out' = <<>>
                    /\ Open(0)'
                    /\ wallboxSock'[0].st = "up"
                    /\ wallboxClients'[0].buffer = PendingOf(0)
               ELSE /\ wallboxClients'[0].buffer = <<>>
                    /\ (backendConnected /\ backendWsHandshakeDone)
                         => /\ Cardinality(UplinkOf(out', 0)) = 1
                            /\ \A k \in UplinkOf(out', 0) :
                                 out'[k].data \in {PlainFrame(f.payload),
                                                   MaskedFrame(MaskKey, f.payload)} ]_vars


(***************************************************************************)
(* An upgrade request that arrives in pieces                               *)
(***************************************************************************)
\* what a wallbox sends first: the beginning of its request, the whole
\* request, or a blank line before anything else
HandshakeFirst == {PartialRequest, UpgradeRequest(KeySample), CRLFCRLF}

\* and what it sends next: the rest of the request, or the beginning again
HandshakeNext ==
  {Substring(UpgradeRequest(KeySample), Len(PartialRequest)), PartialRequest}

NextHandshake ==
  \/ WallboxConnects(MaxRelaySessions)
  \/ acceptWallboxConnections
  \/ \E i \in 0 .. MaxRelaySessions - 1 : \E c \in HandshakeFirst :
       ~wallboxClients[i].wsHandshakeDone /\ WallboxSends(i, c)
  \/ \E i \in 0 .. MaxRelaySessions - 1 : \E c \in HandshakeNext :
       /\ ~wallboxClients[i].wsHandshakeDone
       /\ Len(wallboxClients[i].buffer) <= Len(PartialRequest)
       /\ WallboxSendsMore(i, c)
  \/ \E i \in 0 .. MaxRelaySessions - 1 : WallboxCloses(i)
  \/ handleWallboxClients

SpecHandshake == BootAt({"nicla"}, BACKOFF_MS) /\ [][NextHandshake]_vars

\* the bytes hold a blank line, at some offset from 0 on
HasTerminator(s) ==
  \E k \in 0 .. Len(s) - Len(CRLFCRLF) : SubSeq(s, k + 1, k + Len(CRLFCRLF)) = CRLFCRLF

\* C31: a step that reads bytes from a session whose handshake is not done
\* writes nothing to it, keeps it waiting and keeps every byte received as
\* long as the bytes hold no blank line; once they hold one, at any offset
\* from 0 on, the step writes the response and the session is Open.
C31_IncrementalHandshake ==
  [][ \A i \in Slots :
        (/\ sketch = "nicla"
         /\ wallboxClients[i].active
         /\ ~wallboxClients[i].wsHandshakeDone
         /\ ReadsWallbox(i))
          => IF HasTerminator(PendingOf(i))
               THEN WritesTo(out', i) # {} /\ Open(i)'
               ELSE /\ WritesTo(out', i) = {}
                    /\ wallboxClients'[i].active
                    /\ ~wallboxClients'[i].wsHandshakeDone
                    /\ wallboxClients'[i].buffer = PendingOf(i) ]_vars


(***************************************************************************)
(* Manual-TCP gateway: several frames in one read                          *)
(***************************************************************************)
\* the Text frames of a wallbox and of the backend
BurstFrames == {TextHi, TextOk}

BackendBurstFrames == {PlainFrame(PayloadHi), PlainFrame(PayloadOk)}

\* an Open wallbox sends one, two or three frames at once
BurstWallboxTurn(i) ==
  IF wallboxClients[i].wsHandshakeDone
    THEN {TextHi, TextHi \o TextOk, TextOk \o TextHi \o TextOk}
    ELSE {UpgradeRequest(KeySample)}

\* and so does the backend once the link is Open
BurstBackendTurn ==
  IF backendWsHandshakeDone
    THEN {PlainFrame(PayloadOk), PlainFrame(PayloadOk) \o PlainFrame(PayloadHi),
          PlainFrame(PayloadHi) \o PlainFrame(PayloadOk) \o PlainFrame(PayloadHi)}
    ELSE {Response101}

NextBurst ==
  \/ WallboxConnects(MaxRelaySessions)
  \/ acceptWallboxConnections
  \/ \E i \in Slots : \E c \in BurstWallboxTurn(i) : WallboxSends(i, c)
  \/ \E i \in Slots :
       /\ wallboxClients[i].buffer \in BurstFrames
       /\ WallboxSendsMore(i, TextHi)
  \/ handleWallboxClients
  \/ \E c \in BurstBackendTurn : BackendSends(c)
  \/ /\ backendBuffer \in BackendBurstFrames
     /\ BackendSendsMore(PlainFrame(PayloadHi))
  \/ handleBackend

SpecBurst == BootAt({"nicla"}, BACKOFF_MS) /\ [][NextBurst]_vars

\* the bytes received from the backend and not processed yet
PendingBackend == backendBuffer \o backendSock.rx

\* the link to the backend is Open and its transport is up
BackendOpen == backendConnected /\ backendWsHandshakeDone /\ backendSock.st = "up"

\* C32: when the bytes pending for an Open session begin with two complete
\* frames, one pass of handleWallboxClients() takes exactly the first frame
\* from them, forwards at most one frame for the session, which carries the
\* first frame's payload, and keeps everything after the first frame in the
\* session's buffer; one call of handleBackend() does the same with the
\* bytes pending from the backend, each Open session receiving one frame.
C32_OneFramePerTick ==
  [][ /\ handleWallboxClients =>
           \A i \in Slots : \A f \in BurstFrames, g \in BurstFrames :
             (/\ Open(i)
              /\ wallboxSock[i].st = "up"
              /\ IsPrefix(f \o g, PendingOf(i)))
               => /\ wallboxClients'[i].buffer = Substring(PendingOf(i), Len(f))
                  /\ Cardinality(UplinkOf(out', i)) = (IF BackendOpen THEN 1 ELSE 0)
                  /\ \A k \in UplinkOf(out', i) :
                       \E p \in {PayloadHi, PayloadOk} :
                         f = PeerFrame(TRUE, 1, MaskKey, p) /\ CarriesText(out'[k].data, p)
      /\ handleBackend =>
           \A f \in BackendBurstFrames, g \in BackendBurstFrames :
             (/\ BackendOpen
              /\ IsPrefix(f \o g, PendingBackend))
               => /\ backendBuffer' = Substring(PendingBackend, Len(f))
                  /\ \A i \in Slots :
                       /\ Cardinality(WritesTo(out', i)) = (IF Open(i) THEN 1 ELSE 0)
                       /\ \A k \in WritesTo(out', i) :
                            \E p \in {PayloadHi, PayloadOk} :
                              f = PlainFrame(p) /\ CarriesText(out'[k].data, p) ]_vars

\* a pass has just forwarded the first frame of a session that had sent two
\* at once, and the second is still in the session's buffer
C32_Witness ==
  \E i \in Slots :
    /\ Open(i)
    /\ wallboxClients[i].buffer = TextOk
    /\ \E k \in UplinkOf(out, i) : CarriesText(out[k].data, PayloadHi)


(***************************************************************************)
(* A link that is connected or connecting, over time                       *)
(***************************************************************************)
\* the manual-TCP gateway's link and the link of slot 0 of the per-session
\* proxy, each with a backend that may stay silent as long as it likes
NextEnsure ==
  \/ handleBackend
  \/ \E c \in BackendResponses : ~backendWsHandshakeDone /\ BackendSends(c)
  \/ BackendCloses
  \/ WallboxConnected(0)
  \/ WallboxDisconnected(0)
  \/ EnsureAll
  \/ BackendLoop(0)
  \/ Tick

SpecEnsure == BootAt({"nicla", "atom"}, 0) /\ [][NextEnsure]_vars

ConnectsBackend(log) == {k \in DOMAIN log : log[k].dst = "backend" /\ log[k].op = "connect"}

BeginsLink(log, i) ==
  {k \in DOMAIN log : log[k].dst = "backend" /\ log[k].slot = i /\ log[k].op = "begin"}

\* C33: while the link is Open, Connecting or HandshakePending, a step of
\* the loop starts no transport connection for it and leaves its
\* last-attempt timestamp alone, whatever the clock says; in the
\* per-session proxy, where nothing else runs in that step, the link itself
\* is unchanged too.
C33_EnsureIsNoOp ==
  [][ /\ (sketch = "nicla" /\ backendConnected /\ handleBackend)
           => /\ ConnectsBackend(out') = {}
              /\ lastBackendAttempt' = lastBackendAttempt
      /\ \A i \in Slots :
           (/\ sketch = "atom"
            /\ sessions[i].active
            /\ backendClients[i].begun
            /\ EnsureAll)
             => /\ BeginsLink(out', i) = {}
                /\ sessions'[i].lastBackendAttempt = sessions[i].lastBackendAttempt
                /\ backendClients'[i] = backendClients[i] ]_vars


(***************************************************************************)
(* Manual-TCP gateway: a backend that accepts the connection and never     *)
(* completes the handshake                                                 *)
(***************************************************************************)
\* the backend sends at most the beginning of a response; one wallbox
\* connects, upgrades and sends Text frames meanwhile
NextSilent ==
  \/ WallboxConnects(1)
  \/ acceptWallboxConnections
  \/ \E c \in FifoWallboxTurn(0) : WallboxSends(0, c)
  \/ handleWallboxClients
  \/ BackendSends(PartialResponse)
  \/ handleBackend
  \/ Tick

\* loop() runs for ever and millis() advances
SpecSilent ==
  /\ BootAt({"nicla"}, 0)
  /\ [][NextSilent]_vars
  /\ WF_vars(Tick)
  /\ WF_vars(handleWallboxClients)
  /\ WF_vars(handleBackend)

HandshakePending == sketch = "nicla" /\ backendConnected /\ ~backendWsHandshakeDone

\* C34: a link that is connected and whose handshake response never
\* becomes complete does not stay in HandshakePending for ever: it is
\* failed, after which the link is no longer connected.
C34_HandshakeTimeout == HandshakePending ~> ~backendConnected


(***************************************************************************)
(* Manual-TCP gateway: a slot used by one connection after another         *)
(***************************************************************************)
\* a wallbox sends its request, whole or in part, then Text frames, whole
\* or in part, and may close at any moment
ReuseWallboxTurn(i) ==
  IF wallboxClients[i].wsHandshakeDone
    THEN {TextHi, Begun(TextOk)}
    ELSE {UpgradeRequest(KeySample), PartialRequest}

NextReuse ==
  \/ WallboxConnects(MaxRelaySessions)
  \/ acceptWallboxConnections
  \/ \E i \in Slots : \E c \in ReuseWallboxTurn(i) : WallboxSends(i, c)
  \/ \E i \in Slots : WallboxCloses(i)
  \/ handleWallboxClients
  \/ ~backendWsHandshakeDone /\ BackendSends(Response101)
  \/ handleBackend

SpecReuse == BootAt({"nicla"}, BACKOFF_MS) /\ [][NextReuse]_vars

Admits(log, i) == \E k \in DOMAIN log : log[k] = Ev("wallbox", i, "accept", <<>>)

\* C35: a step that admits a connection into slot i finds the slot
\* inactive, and leaves it active with an empty buffer, its handshake not
\* done and nothing unread; no step of acceptWallboxConnections() changes
\* the entry or the transport of a slot that is active; and no step writes
\* to the backend for a slot whose own handshake is not done.
C35_SafeSlotReuse ==
  [][ \A i \in Slots :
        /\ Admits(out', i) =>
             /\ ~wallboxClients[i].active
             /\ wallboxClients'[i].active
             /\ wallboxClients'[i].buffer = <<>>
             /\ ~wallboxClients'[i].wsHandshakeDone
             /\ wallboxSock'[i] = FreshSock
        /\ (acceptWallboxConnections /\ wallboxClients[i].active) =>
             /\ wallboxClients'[i] = wallboxClients[i]
             /\ wallboxSock'[i] = wallboxSock[i]
        /\ ~Open(i) => UplinkOf(out', i) = {} ]_vars

\* a connection has just been admitted into a slot below an active one: the
\* slot has had an occupant before
C35_Witness ==
  \E i \in Slots : \E j \in Slots :
    /\ i < j
    /\ Admits(out, i)
    /\ wallboxClients[j].active


(***************************************************************************)
(* Manual-TCP gateway: a first frame sent right behind the handshake       *)
(***************************************************************************)
\* a wallbox sends its request alone or with its first Text frame behind it
EarlyWallboxTurn(i) ==
  IF wallboxClients[i].wsHandshakeDone
    THEN {TextOk}
    ELSE {UpgradeRequest(KeySample), UpgradeRequest(KeySample) \o TextHi}

\* and the backend its response alone or with a Text frame behind it
EarlyBackendTurn ==
  IF backendWsHandshakeDone
    THEN {PlainFrame(PayloadOk)}
    ELSE {Response101, Response101 \o PlainFrame(PayloadHi)}

NextEarly ==
  \/ WallboxConnects(MaxRelaySessions)
  \/ acceptWallboxConnections
  \/ \E i \in Slots : \E c \in EarlyWallboxTurn(i) : WallboxSends(i, c)
  \/ \E i \in Slots : WallboxCloses(i)
  \/ handleWallboxClients
  \/ \E c \in EarlyBackendTurn : BackendSends(c)
  \/ BackendCloses
  \/ handleBackend

SpecEarly == BootAt({"nicla"}, BACKOFF_MS) /\ [][NextEarly]_vars

\* the bytes of s behind its first blank line
AfterTerminator(s) == Substring(s, IndexOf(s, CRLFCRLF) + Len(CRLFCRLF))

\* C36: the step that completes a session's handshake leaves in the
\* session's buffer every byte received behind the blank line that ends
\* the request, and the step that completes the backend's handshake leaves
\* in backendBuffer every byte received behind the blank line that ends the
\* response.
C36_EarlyBytesKept ==
  [][ /\ \A i \in Slots :
           (/\ sketch = "nicla"
            /\ wallboxClients[i].active
            /\ ~wallboxClients[i].wsHandshakeDone
            /\ Open(i)')
             => wallboxClients'[i].buffer = AfterTerminator(PendingOf(i))
      /\ (/\ sketch = "nicla"
          /\ backendConnected
          /\ ~backendWsHandshakeDone
          /\ backendWsHandshakeDone')
           => backendBuffer' = AfterTerminator(PendingBackend) ]_vars


\* C37: in the manual-TCP gateway backendWsHandshakeDone is true only
\* while backendConnected is true, and a step that takes the link from not
\* connected to connected leaves the handshake flag false and backendBuffer
\* empty.
C37_HandshakeImpliesConnected ==
  /\ [](sketch = "nicla" => (backendWsHandshakeDone => backendConnected))
  /\ [][ (sketch = "nicla" /\ ~backendConnected /\ backendConnected')
           => (~backendWsHandshakeDone' /\ backendBuffer' = <<>>) ]_vars

\* the link has just been connected again, after an earlier connection
\* that had completed its handshake or had left bytes behind
C37_Witness ==
  /\ sketch = "nicla"
  /\ ConnectTried
  /\ backendConnected
  /\ Len(connectLog) >= 2
  /\ \E k \in 1 .. Len(connectLog) - 1 : connectLog[k].ok


(***************************************************************************)
(* Per-session proxies: any sequence of events of wallboxServer            *)
(***************************************************************************)
\* the client numbers of the events; wallboxServer gives a new connection
\* the lowest number that is not in use
EventClients == 0 .. MAX_WALLBOX_CLIENTS - 1

LowestUnused(c) == \A d \in EventClients : d < c => d \in serverClients

\* wallboxEvent(c, WStype_CONNECTED) for a client number that the proxy
\* has not seen disconnect
WallboxConnectedAgain(c) ==
  /\ OnAtom
  /\ c \in serverClients
  /\ Commit(wallboxConnected(Step, c))

\* handleWallboxEvent(c, WStype_CONNECTED), likewise
TouchWallboxConnectedAgain(c) ==
  /\ OnTouch
  /\ c \in serverClients
  /\ TouchCommit(endpointConnected(TouchStep, c))

NextEvents ==
  \/ \E c \in EventClients : LowestUnused(c) /\ WallboxConnected(c)
  \/ \E c \in EventClients : WallboxConnectedAgain(c)
  \/ \E c \in EventClients : WallboxDisconnected(c)
  \/ \E c \in EventClients : WallboxText(c, WallboxTag(c))
  \/ \E c \in EventClients : LowestUnused(c) /\ TouchWallboxConnected(c)
  \/ \E c \in EventClients : TouchWallboxConnectedAgain(c)
  \/ \E c \in EventClients : TouchWallboxDisconnected(c)
  \/ \E c \in EventClients : TouchWallboxText(c, WallboxTag(c))

SpecEvents == BootAt({"atom", "touch"}, BACKOFF_MS) /\ [][NextEvents]_vars

\* C38: in the per-session proxies no two active slots hold the same
\* client number, whatever CONNECTED, DISCONNECTED and TEXT events have
\* been delivered, a CONNECTED event for a client number with an active
\* session included.
C38_OneSessionPerClient ==
  \A i \in Slots : \A j \in Slots :
    i # j =>
      /\ (sketch = "atom" /\ sessions[i].active /\ sessions[j].active)
           => sessions[i].wallboxId # sessions[j].wallboxId
      /\ (sketch = "touch" /\ endpoints[i].active /\ endpoints[j].active)
           => endpoints[i].clientId # endpoints[j].clientId


\* a CONNECTED event for a client number whose session was active in slot
\* j has just been handled: that session was reset and the client has its
\* one session in the lower slot i
C38_Witness ==
  \E i \in Slots : \E j \in Slots :
    /\ sketch = "atom"
    /\ i < j
    /\ out = <<Ev("backend", j, "disconnect", <<>>), Ev("backend", i, "begin", <<>>)>>
    /\ sessions[i].active
    /\ ~sessions[j].active
    /\ sessions[i].wallboxId \in serverClients


\* client number c has an active session
OwnsSession(S, c) == \E i \in Slots : S[i].active /\ S[i].wallboxId = c

\* the step closes client c
Rejects(log, c) == \E k \in DOMAIN log : log[k] = Ev("wallbox", c, "disconnect", <<>>)

\* C40: in the per-session Atom proxy a CONNECTED event is rejected only
\* when no slot can be made free: when the client number already owns an
\* active session, or when some slot is inactive, the step does not close
\* the client and leaves it with an active session, also when every slot
\* was active at the time of the event.
C40_StaleSessionReplaced ==
  [][ \A c \in EventClients :
        (/\ sketch = "atom"
         /\ WallboxConnected(c) \/ WallboxConnectedAgain(c)
         /\ \/ OwnsSession(sessions, c)
            \/ \E i \in Slots : ~sessions[i].active)
          => /\ ~Rejects(out', c)
             /\ c \in serverClients'
             /\ OwnsSession(sessions', c) ]_vars


(***************************************************************************)
(* Broadcast variant of the Atom proxy: client numbers beyond the slots    *)
(***************************************************************************)
\* client numbers that share a flag: c and c + MAX_WALLBOX_CLIENTS
ModuloClients == 0 .. MAX_WALLBOX_CLIENTS + 1

NextModulo ==
  \/ \E c \in ModuloClients : WallboxConnectedBc(c)
  \/ \E c \in ModuloClients : WallboxDisconnectedBc(c)
  \/ \E c \in ModuloClients : WallboxTextBc(c, WallboxTag(c))
  \/ BackendLoopBc

SpecModulo == BootAt({"abc"}, BACKOFF_MS) /\ [][NextModulo]_vars

\* C39: in the broadcast variant the number of flags set in wallboxActive
\* is the number of clients admitted and not yet disconnected, and so at
\* most MAX_WALLBOX_CLIENTS clients are admitted at the same time.
C39_FlagsCountClients ==
  sketch = "abc" =>
    /\ activeClientCount = Cardinality(serverClients)
    /\ Cardinality(serverClients) <= MAX_WALLBOX_CLIENTS

=============================================================================
